---- MODULE Spec2Model ----
(***************************************************************************)
(* Model of the EDA assistant (src/app.py): the session memory             *)
(* (MemoryManager), the dataset profiler and analysis catalog              *)
(* (DataAnalyzer) and the intent resolver (LLMQueryProcessor).             *)
(***************************************************************************)
EXTENDS Integers, Sequences, FiniteSets, TLC

(***************************************************************************)
(* Bounds of the model.                                                    *)
(***************************************************************************)
\* datetime.now() is read at most MaxTime times in a behaviour
MaxTime == 2

\* at most MaxFaults reads or writes of a session file fail in a behaviour
MaxFaults == 1

(***************************************************************************)
(* Python / JSON values.                                                   *)
(***************************************************************************)
\* Python's None
None == "None"

\* JSON's null
JsonNull == "null"

\* json.dump of an Optional[str] value
ToJson(v) == IF v = None THEN JsonNull ELSE v

\* json.load of a JSON string-or-null value
FromJson(v) == IF v = JsonNull THEN None ELSE v

(***************************************************************************)
(* Session identifiers.                                                    *)
(***************************************************************************)
\* the uploaded file contents (bytes) of the model
Files == { <<97>>, <<98>> }

\* hashlib.md5(content).hexdigest(), as the sequence of its 32 hex digits
Md5Hex(content) ==
    CASE content = <<97>> ->
           << 0, 12, 12, 1, 7, 5, 11, 9, 12, 0, 15, 1, 11, 6, 10, 8,
              3, 1, 12, 3, 9, 9, 14, 2, 6, 9, 7, 7, 2, 6, 6, 1 >>
      [] content = <<98>> ->
           << 9, 2, 14, 11, 5, 15, 15, 14, 14, 6, 10, 14, 2, 15, 14, 12,
              3, 10, 13, 7, 1, 12, 7, 7, 7, 5, 3, 1, 5, 7, 8, 15 >>

\* generate_session_id: the first 12 hex digits of the MD5 digest
generate_session_id(file_content) == SubSeq(Md5Hex(file_content), 1, 12)

\* the session identifiers of the model's files
SessionIds == { generate_session_id(f) : f \in Files }

(***************************************************************************)
(* The stored session file, ANALYSIS_MEMORY_DIR / session_<id>.json.       *)
(***************************************************************************)
\* no file
Absent == [kind |-> "absent"]

\* a file that open(..., 'w') truncated and json.dump did not complete
Partial == [kind |-> "partial"]

\* a file holding a complete JSON document
JsonFile(d) == [kind |-> "json", doc |-> d]

\* json.dump(self.memory): None becomes null, lists and strings are kept
JsonDump(memory) ==
    [ queries |-> [i \in DOMAIN memory.queries |->
                     [memory.queries[i] EXCEPT !.chart_type = ToJson(@),
                                               !.answer = ToJson(@)]],
      insights |-> [i \in DOMAIN memory.insights |->
                     [memory.insights[i] EXCEPT !.insight = ToJson(@)]],
      conclusions |-> [i \in DOMAIN memory.conclusions |->
                     [memory.conclusions[i] EXCEPT !.text = ToJson(@)]],
      created_at |-> memory.created_at,
      selected_model |-> ToJson(memory.selected_model) ]

\* json.load of a complete document: null becomes None
JsonLoad(doc) ==
    [ queries |-> [i \in DOMAIN doc.queries |->
                     [doc.queries[i] EXCEPT !.chart_type = FromJson(@),
                                            !.answer = FromJson(@)]],
      insights |-> [i \in DOMAIN doc.insights |->
                     [doc.insights[i] EXCEPT !.insight = FromJson(@)]],
      conclusions |-> [i \in DOMAIN doc.conclusions |->
                     [doc.conclusions[i] EXCEPT !.text = FromJson(@)]],
      created_at |-> doc.created_at,
      selected_model |-> FromJson(doc.selected_model) ]

(***************************************************************************)
(* MemoryManager.                                                          *)
(***************************************************************************)
\* mutant of EmptyMemory: the model selector's default is stored as selected
EmptyMemory_DefaultModel(ts) ==
    [ queries |-> << >>, insights |-> << >>, conclusions |-> << >>,
      created_at |-> ts, selected_model |-> "gpt-4o-mini" ]

\* the record _load_memory builds when nothing can be loaded
EmptyMemory(ts) ==
    [ queries |-> << >>, insights |-> << >>, conclusions |-> << >>,
      created_at |-> ts, selected_model |-> None ]

\* mutant of LoadMemory: a record whose file could not be opened is
\* recovered all the same
LoadMemory_Recovers(file, rd, ts) ==
    IF file.kind = "json" THEN JsonLoad(file.doc) ELSE EmptyMemory(ts)

\* mutant of LoadMemory: the stored file is never read
LoadMemory_AlwaysEmpty(file, rd, ts) ==
    [ queries |-> << >>, insights |-> << >>, conclusions |-> << >>,
      created_at |-> ts, selected_model |-> None ]

\* MemoryManager._load_memory: the stored record when the file exists, opens
\* (rd = "ok") and parses; the empty record otherwise (the bare except passes)
LoadMemory(file, rd, ts) ==
    IF file.kind # "absent" /\ rd = "ok" /\ file.kind = "json"
    THEN JsonLoad(file.doc)
    ELSE EmptyMemory(ts)

\* mutant of Persist: a successful call writes nothing
Persist_SkipsWrite(file, memory, io) ==
    CASE io = "ok" -> [file |-> file, warned |-> FALSE, raised |-> FALSE]
      [] io = "open_fail" -> [file |-> file, warned |-> TRUE, raised |-> FALSE]
      [] io = "write_fail" -> [file |-> Partial, warned |-> TRUE, raised |-> FALSE]

\* mutant of Persist: no except clause, the I/O error reaches the caller
Persist_NoCatch(file, memory, io) ==
    CASE io = "ok" ->
           [file |-> JsonFile(JsonDump(memory)), warned |-> FALSE, raised |-> FALSE]
      [] io = "open_fail" -> [file |-> file, warned |-> FALSE, raised |-> TRUE]
      [] io = "write_fail" -> [file |-> Partial, warned |-> FALSE, raised |-> TRUE]

\* mutant of Persist: the file is opened in exclusive-creation mode, so an
\* existing file is not overwritten and the error is reported
Persist_ExclusiveCreate(file, memory, io) ==
    CASE io = "ok" /\ file.kind = "absent" ->
           [file |-> JsonFile(JsonDump(memory)), warned |-> FALSE, raised |-> FALSE]
      [] io = "ok" /\ file.kind # "absent" ->
           [file |-> file, warned |-> TRUE, raised |-> FALSE]
      [] io = "open_fail" -> [file |-> file, warned |-> TRUE, raised |-> FALSE]
      [] io = "write_fail" -> [file |-> Partial, warned |-> TRUE, raised |-> FALSE]

\* MemoryManager._persist: whole-record overwrite.  io = "open_fail": open
\* raises and the file is left as it was; io = "write_fail": the file was
\* truncated by open and json.dump raises.  Either failure is caught and
\* reported with st.warning, so nothing is raised to the caller.
Persist(file, memory, io) ==
    CASE io = "ok" ->
           [file |-> JsonFile(JsonDump(memory)), warned |-> FALSE, raised |-> FALSE]
      [] io = "open_fail" ->
           [file |-> file, warned |-> TRUE, raised |-> FALSE]
      [] io = "write_fail" ->
           [file |-> Partial, warned |-> TRUE, raised |-> FALSE]

\* the entry save_query appends
QueryEntry(ts, question, answer, chart_type) ==
    [timestamp |-> ts, question |-> question, answer |-> answer,
     chart_type |-> chart_type]

\* the entry save_insight appends
InsightEntry(ts, insight, category) ==
    [timestamp |-> ts, insight |-> insight, category |-> category]

\* the entry save_conclusion appends
ConclusionEntry(ts, text) == [timestamp |-> ts, text |-> text]

\* mutant of ContextSummary: the first three insights ([:3]) instead of the last
ContextSummary_FirstThree(memory) ==
    LET n == Len(memory.insights)
        recent == SubSeq(memory.insights, 1, IF n > 3 THEN 3 ELSE n)
    IN  << [line |-> "count", num_queries |-> Len(memory.queries)] >>
        \o (IF n > 0
            THEN << [line |-> "header"] >>
                 \o [i \in 1..Len(recent) |->
                       [line |-> "insight", category |-> recent[i].category,
                        text |-> recent[i].insight]]
            ELSE << >>)

\* MemoryManager.get_context_summary: the lines of the returned string
ContextSummary(memory) ==
    LET n == Len(memory.insights)
        recent == SubSeq(memory.insights, IF n > 3 THEN n - 2 ELSE 1, n)
    IN  << [line |-> "count", num_queries |-> Len(memory.queries)] >>
        \o (IF n > 0
            THEN << [line |-> "header"] >>
                 \o [i \in 1..Len(recent) |->
                       [line |-> "insight", category |-> recent[i].category,
                        text |-> recent[i].insight]]
            ELSE << >>)


(***************************************************************************)
(* Datasets.  A column is named by its position; a dataset is its number   *)
(* of rows and, per column, the dtype class, the rows whose value is       *)
(* missing and whether its strings parse as dates.                         *)
(***************************************************************************)
\* the largest number of rows of a dataset of the model
MaxRows == 11

MAX_COLUMNS_FOR_ANALYSIS == 50

\* a numeric column (int64 / float64) with the given missing rows
Num(miss) == [kind |-> "num", miss |-> miss, dates |-> FALSE, vals |-> << >>]

\* an object column of strings; dates: pd.to_datetime parses every value
Cat(miss, dates) == [kind |-> "cat", miss |-> miss, dates |-> dates, vals |-> << >>]

\* the narrow column layouts of the model
NarrowLayouts ==
    { << >>,
      << Num({}) >>,
      << Cat({}, FALSE) >>,
      << Num({1}), Num({2}) >>,
      << Cat({}, TRUE), Num({1}) >>,
      << Num({}), Cat({2}, FALSE), Num({}) >>,
      << Num({}), Num({1}), Num({1, 2}) >>,
      << Cat({1}, TRUE), Num({}), Num({2}), Num({}) >> }

\* a layout of n columns, every third one an object column
Wide(n) == [c \in 1..n |-> IF c % 3 = 0 THEN Cat({}, FALSE) ELSE Num({})]

\* the layouts around the column cap
WideLayouts ==
    { Wide(n) : n \in (MAX_COLUMNS_FOR_ANALYSIS - 1)..(MAX_COLUMNS_FOR_ANALYSIS + 2) }

\* the dataframe pd.read_csv builds from n rows of the given columns: the
\* index is the row numbers in file order.  seed stands for the cell values
\* that the model does not list (the statistics computed from them).
DataFrame(n, cols) ==
    [nrows |-> n, cols |-> cols, index |-> [i \in 1..n |-> i], seed |-> 0]

\* the datasets pd.read_csv hands to DataAnalyzer
Datasets ==
    { DataFrame(n, l) : n \in 0..MaxRows, l \in NarrowLayouts \cup WideLayouts }

\* df.columns
Columns(df) == [c \in 1..Len(df.cols) |-> c]

\* the rows of df in which column c holds a value
Present(df, c) == { i \in 1..df.nrows : i \notin df.cols[c].miss }

\* len(df[cs].dropna()): the rows complete in every column of cs
CompleteRows(df, cs) == { i \in 1..df.nrows : \A c \in cs : i \in Present(df, c) }

\* df.select_dtypes(include=...).columns.tolist()
SelectDtypes(df, kind) ==
    LET Test(c) == df.cols[c].kind = kind
    IN  SelectSeq(Columns(df), Test)

\* the first n elements of a list, s[:n]
FirstN(s, n) == SubSeq(s, 1, IF Len(s) < n THEN Len(s) ELSE n)

\* the elements of a list
Elems(s) == { s[i] : i \in DOMAIN s }

\* the sum of a list of numbers
RECURSIVE SumSeq(_)
SumSeq(s) == IF s = << >> THEN 0 ELSE Head(s) + SumSeq(Tail(s))

\* the value of column col in row i.  A column that lists no values holds
\* the row number when numeric, and dates that fall with the row number when
\* it is an object column of dates.
ValueAt(col, n, i) ==
    IF col.vals # << >> THEN col.vals[i]
    ELSE IF col.kind = "num" THEN i ELSE n - i

\* a row label put into a list of row labels ordered by key, after the
\* labels of the same key
RECURSIVE InsertByKey(_, _, _, _)
InsertByKey(sorted, i, col, n) ==
    IF sorted = << >> THEN << i >>
    ELSE IF ValueAt(col, n, i) < ValueAt(col, n, sorted[1])
    THEN << i >> \o sorted
    ELSE << sorted[1] >> \o InsertByKey(Tail(sorted), i, col, n)

\* the row labels of index ordered by the values of col; rows of equal value
\* keep their order
RECURSIVE SortIndex(_, _, _)
SortIndex(index, col, n) ==
    IF index = << >> THEN << >>
    ELSE InsertByKey(SortIndex(SubSeq(index, 1, Len(index) - 1), col, n),
                     index[Len(index)], col, n)

(***************************************************************************)
(* Outcomes of Python code: a returned value or a raised exception.        *)
(***************************************************************************)
Return(v) == [raised |-> FALSE, value |-> v]

Raise(e) == [raised |-> TRUE, error |-> e]

\* try: body / except Exception: return {"error": msg}
OrErrorPayload(outcome, msg) ==
    IF outcome.raised THEN Return([error |-> msg]) ELSE outcome

(***************************************************************************)
(* DataAnalyzer: construction.                                             *)
(***************************************************************************)
\* mutant of ValidateDataframe: a wide dataframe is not cut to the column cap
ValidateDataframe_NoTruncation(df) ==
    IF df.nrows = 0 \/ Len(df.cols) = 0
    THEN Raise("empty_dataset")
    ELSE IF df.nrows < 5 THEN Raise("insufficient_data") ELSE Return(df)

\* DataAnalyzer._validate_dataframe: the dataframe kept for analysis, or the
\* ValueError raised
ValidateDataframe(df) ==
    IF df.nrows = 0 \/ Len(df.cols) = 0
    THEN Raise("empty_dataset")
    ELSE LET kept == IF Len(df.cols) > MAX_COLUMNS_FOR_ANALYSIS
                     THEN [df EXCEPT !.cols = SubSeq(@, 1, MAX_COLUMNS_FOR_ANALYSIS)]
                     ELSE df
         IN  IF kept.nrows < 5
             THEN Raise("insufficient_data")
             ELSE Return(kept)

\* DataAnalyzer._assess_data_quality (the counts)
AssessDataQuality(df) ==
    LET missing == { <<i, c>> \in (1..df.nrows) \X (1..Len(df.cols)) :
                        i \in df.cols[c].miss }
    IN  [ total_cells |-> df.nrows * Len(df.cols),
          missing_cells |-> Cardinality(missing) ]

\* DataAnalyzer._extract_metadata
ExtractMetadata(df) ==
    LET numeric_columns == SelectDtypes(df, "num")
    IN  [ shape |-> << df.nrows, Len(df.cols) >>,
          columns |-> Columns(df),
          dtypes |-> [c \in 1..Len(df.cols) |-> df.cols[c].kind],
          numeric_cols |-> numeric_columns,
          categorical_cols |-> SelectDtypes(df, "cat"),
          datetime_cols |-> SelectDtypes(df, "datetime64"),
          missing_values |->
              [c \in 1..Len(df.cols) |-> df.nrows - Cardinality(Present(df, c))],
          sample_stats |->
              { c \in Elems(FirstN(numeric_columns, 15)) : Present(df, c) # {} },
          data_quality |-> AssessDataQuality(df) ]

\* DataAnalyzer.__init__: validate, then extract the metadata
NewDataAnalyzer(dataframe) ==
    LET v == ValidateDataframe(dataframe)
    IN  IF v.raised
        THEN v
        ELSE Return([built |-> TRUE, df |-> v.value,
                     metadata |-> ExtractMetadata(v.value)])

(***************************************************************************)
(* DataAnalyzer: the analysis operations.  self is a constructed analyzer; *)
(* lib = "raise" when a pandas / scipy / sklearn call of the try body      *)
(* raises.  A number that depends on the cell values is left as Computed.  *)
(***************************************************************************)
Computed == "computed"

\* the anomaly detection methods detect_anomalies implements
AnomalyMethods == { "zscore", "iqr", "isolation_forest" }

\* the coefficient above which a pair is listed, 0.5, in thousandths
CORRELATION_THRESHOLD == 500

\* |x|
Abs(x) == IF x < 0 THEN 0 - x ELSE x

\* the number of leading numeric columns that correlate with one another
MaxCorrelated == 8

\* corr_matrix.iloc[i, j] for i < j, in thousandths.  The coefficients are
\* not computed from the cells: the seed of the dataset draws them, spread
\* over -1..1 in steps of 0.1 when it is even and all above 0.5 when odd;
\* the columns after the first MaxCorrelated correlate weakly with the rest.
CorrOf(df, i, j) ==
    IF j > MaxCorrelated THEN 100
    ELSE IF df.seed % 2 = 0
    THEN (((i * 3 + j * 5 + df.seed * 7) % 21) - 10) * 100
    ELSE 510 + ((i * 3 + j * 5 + df.seed) % 8) * 70

\* the number of pairs the loops visit before the pairs of row i
PairsBefore(i, n) == (i - 1) * n - (i * (i - 1)) \div 2

\* the pairs (i, j) in the order the loops visit them: for i in range(n),
\* for j in range(i + 1, n)
Pairs(n) ==
    [k \in 1..((n * (n - 1)) \div 2) |->
        LET i == CHOOSE r \in 1..n : PairsBefore(r, n) < k /\ k <= PairsBefore(r + 1, n)
        IN  << i, i + (k - PairsBefore(i, n)) >>]

\* mutant of StrongCorrelations: a coefficient of exactly 0.5 counts as strong
StrongCorrelations_Inclusive(df, numeric_cols) ==
    LET Strong(pair) == Abs(CorrOf(df, pair[1], pair[2])) >= CORRELATION_THRESHOLD
        pairs == SelectSeq(Pairs(Len(numeric_cols)), Strong)
    IN  [k \in DOMAIN pairs |->
            LET corr_val == CorrOf(df, pairs[k][1], pairs[k][2])
            IN  [ var1 |-> numeric_cols[pairs[k][1]],
                  var2 |-> numeric_cols[pairs[k][2]],
                  correlation |-> corr_val,
                  strength |-> IF Abs(corr_val) > 700 THEN "forte" ELSE "moderada" ]]

\* the list strong_correlations when the loops end
StrongCorrelations(df, numeric_cols) ==
    LET Strong(pair) == Abs(CorrOf(df, pair[1], pair[2])) > CORRELATION_THRESHOLD
        pairs == SelectSeq(Pairs(Len(numeric_cols)), Strong)
    IN  [k \in DOMAIN pairs |->
            LET corr_val == CorrOf(df, pairs[k][1], pairs[k][2])
            IN  [ var1 |-> numeric_cols[pairs[k][1]],
                  var2 |-> numeric_cols[pairs[k][2]],
                  correlation |-> corr_val,
                  strength |-> IF Abs(corr_val) > 700 THEN "forte" ELSE "moderada" ]]

\* an entry put into a list ordered by falling |correlation|, after the
\* entries of the same |correlation|
RECURSIVE InsertByAbs(_, _)
InsertByAbs(sorted, x) ==
    IF sorted = << >> THEN << x >>
    ELSE IF Abs(x.correlation) > Abs(sorted[1].correlation)
    THEN << x >> \o sorted
    ELSE << sorted[1] >> \o InsertByAbs(Tail(sorted), x)

\* sorted(entries, key=lambda x: abs(x['correlation']), reverse=True)
RECURSIVE SortByAbs(_)
SortByAbs(entries) ==
    IF entries = << >> THEN << >>
    ELSE InsertByAbs(SortByAbs(SubSeq(entries, 1, Len(entries) - 1)),
                     entries[Len(entries)])

\* DataAnalyzer._detect_multicollinearity
DetectMulticollinearity(df, numeric_cols) ==
    LET High(pair) == Abs(CorrOf(df, pair[1], pair[2])) > 800
        pairs == SelectSeq(Pairs(Len(numeric_cols)), High)
    IN  [ high_correlation_pairs |->
              [k \in DOMAIN pairs |->
                  [ var1 |-> numeric_cols[pairs[k][1]],
                    var2 |-> numeric_cols[pairs[k][2]],
                    correlation |-> Abs(CorrOf(df, pairs[k][1], pairs[k][2])) ]],
          has_multicollinearity |-> Len(pairs) > 0,
          severity |-> IF Len(pairs) > 3 THEN "alta"
                       ELSE IF Len(pairs) > 0 THEN "moderada" ELSE "baixa" ]

\* the try body of compute_correlation_analysis
CorrelationBody(self, lib) ==
    LET numeric_cols == self.metadata.numeric_cols
        numeric_df == CompleteRows(self.df, Elems(numeric_cols))
        strong_correlations == StrongCorrelations(self.df, numeric_cols)
    IN  IF Len(numeric_cols) < 2
        THEN Return([error |-> "Necessario pelo menos 2 colunas numericas"])
        ELSE IF Cardinality(numeric_df) < 10
        THEN Return([error |-> "Dados insuficientes apos remocao de valores faltantes"])
        ELSE IF lib = "raise"
        THEN Raise("Exception")
        ELSE Return([ correlation_matrix |-> Computed,
                      strong_correlations |->
                          FirstN(SortByAbs(strong_correlations), 15),
                      multicollinearity |->
                          DetectMulticollinearity(self.df, numeric_cols),
                      correlation_summary |->
                          [ total_pairs |->
                              (Len(numeric_cols) * (Len(numeric_cols) - 1)) \div 2,
                            strong_pairs |-> Len(strong_correlations),
                            avg_correlation |-> Computed ] ])

\* DataAnalyzer.compute_correlation_analysis
compute_correlation_analysis(self, lib) ==
    OrErrorPayload(CorrelationBody(self, lib), "Erro na analise de correlacao")

\* the z-score above which a value is an anomaly
ANOMALY_ZSCORE_THRESHOLD == 3

\* the multiple of the interquartile range of the fences, 1.5, in halves
ANOMALY_IQR_MULTIPLIER == 3

\* data = self.df[column].dropna(): the row labels with a value, in the order
\* of the index
DropNaSeries(df, column) ==
    LET Kept(i) == i \notin df.cols[column].miss
    IN  SelectSeq(df.index, Kept)

\* the values of the rows of data, ascending
SortedValues(df, column, data) ==
    LET col == df.cols[column]
        order == SortIndex(data, col, df.nrows)
    IN  [k \in DOMAIN order |-> ValueAt(col, df.nrows, order[k])]

\* Series.quantile(q4 / 4) of ascending values, times 4: the value at
\* position q4 * (n - 1) / 4, interpolated between its two neighbours
Quantile(sorted, q4) ==
    LET pos == q4 * (Len(sorted) - 1)
        lo == pos \div 4 + 1
        frac == pos % 4
    IN  IF frac = 0 THEN 4 * sorted[lo]
        ELSE 4 * sorted[lo] + frac * (sorted[lo + 1] - sorted[lo])

\* mutant of IqrMask: the fences are the quartiles themselves
IqrMask_Quartiles(df, column, data) ==
    LET col == df.cols[column]
        sorted == SortedValues(df, column, data)
        Q1 == Quantile(sorted, 1)
        Q3 == Quantile(sorted, 3)
        Outside(i) == \/ 4 * ValueAt(col, df.nrows, i) < Q1
                      \/ 4 * ValueAt(col, df.nrows, i) > Q3
    IN  SelectSeq(data, Outside)

\* method "iqr": the rows below Q1 - 1.5 * IQR or above Q3 + 1.5 * IQR (the
\* quartiles are held times 4 and the fences times 8)
IqrMask(df, column, data) ==
    LET col == df.cols[column]
        sorted == SortedValues(df, column, data)
        Q1 == Quantile(sorted, 1)
        Q3 == Quantile(sorted, 3)
        IQR == Q3 - Q1
        lower_bound == 2 * Q1 - ANOMALY_IQR_MULTIPLIER * IQR
        upper_bound == 2 * Q3 + ANOMALY_IQR_MULTIPLIER * IQR
        Outside(i) == \/ 8 * ValueAt(col, df.nrows, i) < lower_bound
                      \/ 8 * ValueAt(col, df.nrows, i) > upper_bound
    IN  SelectSeq(data, Outside)

\* the sum of f over the rows of a list
RECURSIVE SumOver(_, _, _, _)
SumOver(rows, col, n, square) ==
    IF rows = << >> THEN 0
    ELSE LET v == ValueAt(col, n, rows[1])
         IN  (IF square THEN v * v ELSE v) + SumOver(Tail(rows), col, n, square)

\* method "zscore": the rows with |x - mean| / std > 3, std the sample
\* standard deviation.  With N values of sum S and D = N * x - S this is
\* D * D * (N - 1) > 9 * N * (N * sum of squares - S * S); a constant column
\* has std 0 and no z-score above the threshold.
ZscoreMask(df, column, data) ==
    LET col == df.cols[column]
        N == Len(data)
        S == SumOver(data, col, df.nrows, FALSE)
        SS == SumOver(data, col, df.nrows, TRUE)
        Far(i) == LET D == N * ValueAt(col, df.nrows, i) - S
                  IN  D * D * (N - 1) >
                        ANOMALY_ZSCORE_THRESHOLD * ANOMALY_ZSCORE_THRESHOLD
                            * N * (N * SS - S * S)
    IN  SelectSeq(data, Far)

\* method "isolation_forest" with contamination 0.1: the forest is not
\* computed; it labels a tenth of the rows, taken here to be the rows
\* holding the largest values
ForestMask(df, column, data) ==
    LET order == SortIndex(data, df.cols[column], df.nrows)
        labelled == { order[k] : k \in (Len(order) - Len(order) \div 10 + 1)..Len(order) }
        Labelled(i) == i \in labelled
    IN  SelectSeq(data, Labelled)

\* the rows of the anomalies of the column by the method
AnomalyRows(df, column, method, data) ==
    CASE method = "zscore" -> ZscoreMask(df, column, data)
      [] method = "iqr" -> IqrMask(df, column, data)
      [] method = "isolation_forest" -> ForestMask(df, column, data)

\* mutant of AnomalyResult: the sample and the indices are not cut
AnomalyResult_Uncapped(df, column, method, data) ==
    LET anomalies == AnomalyRows(df, column, method, data)
    IN  [ column |-> column,
          total_values |-> Len(data),
          anomalies_count |-> Len(anomalies),
          anomalies_percentage |-> Computed,
          method |-> method,
          threshold |-> method,
          anomalies_sample |->
              [k \in DOMAIN anomalies |->
                  ValueAt(df.cols[column], df.nrows, anomalies[k])],
          anomaly_indices |-> anomalies,
          statistics |-> Computed ]

\* the success result of detect_anomalies
AnomalyResult(df, column, method, data) ==
    LET anomalies == AnomalyRows(df, column, method, data)
        head == FirstN(anomalies, 10)
    IN  [ column |-> column,
          total_values |-> Len(data),
          anomalies_count |-> Len(anomalies),
          anomalies_percentage |-> Computed,
          method |-> method,
          threshold |-> method,
          anomalies_sample |->
              [k \in DOMAIN head |-> ValueAt(df.cols[column], df.nrows, head[k])],
          anomaly_indices |-> FirstN(anomalies, 20),
          statistics |-> Computed ]

\* mutant of AnomaliesBody: the minimum of 10 values is not checked
AnomaliesBody_NoMinimum(self, column, method, lib) ==
    IF column \notin Elems(self.metadata.numeric_cols)
    THEN Return([error |-> "Coluna nao e numerica"])
    ELSE IF method \notin AnomalyMethods
    THEN Return([error |-> "Metodo nao implementado"])
    ELSE IF lib = "raise"
    THEN Raise("Exception")
    ELSE Return(AnomalyResult(self.df, column, method,
                              DropNaSeries(self.df, column)))

\* the try body of detect_anomalies
AnomaliesBody(self, column, method, lib) ==
    IF column \notin Elems(self.metadata.numeric_cols)
    THEN Return([error |-> "Coluna nao e numerica"])
    ELSE LET data == DropNaSeries(self.df, column)
         IN  IF Len(data) < 10
             THEN Return([error |-> "Dados insuficientes para deteccao de anomalias"])
             ELSE IF method \notin AnomalyMethods
             THEN Return([error |-> "Metodo nao implementado"])
             ELSE IF lib = "raise"
             THEN Raise("Exception")
             ELSE Return(AnomalyResult(self.df, column, method, data))

\* DataAnalyzer.detect_anomalies
detect_anomalies(self, column, method, lib) ==
    OrErrorPayload(AnomaliesBody(self, column, method, lib),
                   "Erro na deteccao de anomalias")

\* the names of the columns temporal_analysis adds to its working frame
TIME_SECONDS == -2

TIME_ELAPSED == -3

MOVING_AVG == -4

MONTH == -5

\* df[[a, b]]: a new frame of the two named columns over the rows of df
SelectColumns(df, names) ==
    [ names |-> names,
      cols |-> << df.cols[names[1]], df.cols[names[2]] >>,
      index |-> df.index,
      nrows |-> df.nrows ]

\* mutant of CopyColumns: the working frame is a view of self.df
CopyColumns_View(df, names) ==
    [ self |-> df, temp |-> SelectColumns(df, names), shared |-> TRUE ]

\* df_temp = self.df[[time_col, value_col]].copy(): the objects the body
\* works on; shared tells whether df_temp and self.df hold the same columns
CopyColumns(df, names) ==
    [ self |-> df, temp |-> SelectColumns(df, names), shared |-> FALSE ]

\* the position of a column name in a frame
PositionOf(names, name) == CHOOSE k \in DOMAIN names : names[k] = name

\* df_temp[name] = col: an assignment in place, seen through every reference
\* to the columns of df_temp
SetColumn(h, name, series) ==
    LET t == h.temp
        written == IF name \in Elems(t.names)
                   THEN [t EXCEPT !.cols[PositionOf(t.names, name)] = series]
                   ELSE [t EXCEPT !.names = Append(@, name), !.cols = Append(@, series)]
        base == IF ~h.shared THEN h.self
                ELSE IF name \in DOMAIN h.self.cols
                THEN [h.self EXCEPT !.cols[name] = series]
                ELSE [h.self EXCEPT !.cols = Append(@, series)]
    IN  [h EXCEPT !.temp = written, !.self = base]

\* df_temp = <a new frame>: the name is bound to another object
Rebind(h, frame) == [h EXCEPT !.temp = frame, !.shared = FALSE]

\* frame.dropna(subset=[name]): a new frame of the rows with a value
DropNa(frame, name) ==
    LET col == frame.cols[PositionOf(frame.names, name)]
        Kept(i) == i \notin col.miss
    IN  [frame EXCEPT !.index = SelectSeq(@, Kept)]

\* frame.sort_values(name): a new frame
SortValues(frame, name) ==
    [frame EXCEPT !.index =
        SortIndex(@, frame.cols[PositionOf(frame.names, name)], frame.nrows)]

\* pd.to_datetime(col, errors='coerce'): a value that is no date becomes NaT
ToDatetime(col, n) ==
    [col EXCEPT !.kind = "datetime64",
                !.miss = IF col.dates THEN @ ELSE 1..n]

\* the least and the greatest of a non-empty set of numbers
MinOf(S) == CHOOSE v \in S : \A w \in S : v <= w

MaxOf(S) == CHOOSE v \in S : \A w \in S : w <= v

Elapsed_Raw(col, n) ==
    [col EXCEPT !.vals = [i \in 1..n |-> IF i \in col.miss THEN 0
                                          ELSE ValueAt(col, n, i)]]

\* series - series.min(): the seconds since the first event; the minimum
\* skips the missing values and a missing value stays missing
Elapsed(col, n) ==
    LET present == (1..n) \ col.miss
        least == IF present = {} THEN 0
                 ELSE MinOf({ ValueAt(col, n, i) : i \in present })
    IN  [col EXCEPT !.vals = [i \in 1..n |-> IF i \in col.miss THEN 0
                                              ELSE ValueAt(col, n, i) - least]]

\* the values of a column of a frame, in the order of the frame's rows
ValuesOf(frame, name) ==
    [k \in 1..Len(frame.index) |->
        ValueAt(frame.cols[PositionOf(frame.names, name)], frame.nrows,
                frame.index[k])]

\* np.arange(n)
Arange(n) == [k \in 1..n |-> k - 1]

\* the sum of x[k] * y[k]
RECURSIVE Dot(_, _)
Dot(x, y) ==
    IF x = << >> THEN 0 ELSE x[1] * y[1] + Dot(Tail(x), Tail(y))

\* the sign of the least-squares slope of y on x, as trend_direction names
\* it; a missing y makes the slope not-a-number, which is neither above nor
\* below zero
TrendDirection(x, y, y_missing) ==
    LET cov == Len(x) * Dot(x, y) - SumSeq(x) * SumSeq(y)
    IN  IF y_missing THEN "estavel"
        ELSE IF cov > 0 THEN "crescente"
        ELSE IF cov < 0 THEN "decrescente"
        ELSE "estavel"

\* stats.linregress refuses equal x values
AllIdentical(x) == Len(x) > 1 /\ \A k \in DOMAIN x : x[k] = x[1]

\* the statements of temporal_analysis from the copy to the sorted frame
TemporalPrepare(h, time_col) ==
    LET col == h.self.cols[time_col]
    IN  IF col.kind = "num"
        THEN LET h1 == SetColumn(h, TIME_SECONDS, col)
                 h2 == SetColumn(h1, TIME_ELAPSED, Elapsed(col, h.self.nrows))
                 h3 == Rebind(h2, DropNa(h2.temp, TIME_ELAPSED))
             IN  Rebind(h3, SortValues(h3.temp, TIME_ELAPSED))
        ELSE LET h1 == SetColumn(h, time_col, ToDatetime(col, h.self.nrows))
                 h2 == Rebind(h1, DropNa(h1.temp, time_col))
             IN  Rebind(h2, SortValues(h2.temp, time_col))

\* the try body of temporal_analysis: out is what the body returns or
\* raises, df is self.df when it ends.  Selecting the same column twice
\* leaves a frame in which df_temp[time_col] is no series: pd.to_datetime
\* raises on it.
TemporalRun(self, time_col, value_col, lib) ==
    IF time_col \notin Elems(Columns(self.df))
       \/ value_col \notin Elems(self.metadata.numeric_cols)
    THEN [ out |-> Return([error |-> "Colunas invalidas"]), df |-> self.df ]
    ELSE IF time_col = value_col
    THEN [ out |-> Raise("ValueError"),
           df |-> CopyColumns(self.df, << time_col, value_col >>).self ]
    ELSE LET copied == CopyColumns(self.df, << time_col, value_col >>)
             sorted == TemporalPrepare(copied, time_col)
             is_numeric_time == self.df.cols[time_col].kind = "num"
             averaged == SetColumn(sorted, MOVING_AVG,
                             sorted.temp.cols[PositionOf(sorted.temp.names, value_col)])
             seasonal == ~is_numeric_time /\ Len(sorted.temp.index) > 50
             final == IF seasonal
                   THEN SetColumn(averaged, MONTH,
                                  averaged.temp.cols[PositionOf(averaged.temp.names, time_col)])
                   ELSE averaged
             x == IF is_numeric_time
                  THEN ValuesOf(sorted.temp, TIME_ELAPSED)
                  ELSE Arange(Len(sorted.temp.index))
             y == ValuesOf(sorted.temp, value_col)
             y_missing == \E k \in DOMAIN sorted.temp.index :
                              sorted.temp.index[k] \in self.df.cols[value_col].miss
         IN  IF lib = "raise"
             THEN [ out |-> Raise("Exception"), df |-> sorted.self ]
             ELSE IF Len(sorted.temp.index) < 10
             THEN [ out |-> Return([error |->
                                "Dados insuficientes para analise temporal"]),
                    df |-> sorted.self ]
             ELSE IF AllIdentical(x)
             THEN [ out |-> Raise("ValueError"), df |-> averaged.self ]
             ELSE [ out |->
                      Return([ has_trend |-> TRUE,
                               data |-> final.temp,
                               start |-> IF is_numeric_time
                                         THEN MinOf(Elems(x)) ELSE Computed,
                               end |-> IF is_numeric_time
                                       THEN MaxOf(Elems(x)) ELSE Computed,
                               time_label |-> IF is_numeric_time
                                              THEN "Seconds since first transaction"
                                              ELSE time_col,
                               mean_value |-> Computed,
                               trend_analysis |->
                                   [ slope |-> Computed,
                                     r_squared |-> Computed,
                                     p_value |-> Computed,
                                     trend_direction |->
                                         TrendDirection(x, y, y_missing) ],
                               seasonal_pattern |->
                                   IF seasonal THEN Computed ELSE None,
                               data_points |-> Len(final.temp.index) ]),
                    df |-> final.self ]

\* the try body of temporal_analysis: what it returns or raises
TemporalBody(self, time_col, value_col, lib) ==
    TemporalRun(self, time_col, value_col, lib).out

\* self.df when temporal_analysis has returned
TemporalEffect(self, time_col, value_col, lib) ==
    TemporalRun(self, time_col, value_col, lib).df

\* DataAnalyzer.temporal_analysis
temporal_analysis(self, time_col, value_col, lib) ==
    OrErrorPayload(TemporalBody(self, time_col, value_col, lib),
                   "Erro na analise temporal")

\* the try body of analyze_distribution
DistributionBody(self, column, lib) ==
    LET data == Present(self.df, column)
    IN  IF column \notin Elems(self.metadata.numeric_cols)
        THEN Return([error |-> "Coluna nao e numerica"])
        ELSE IF Cardinality(data) < 10
        THEN Return([error |-> "Dados insuficientes para analise de distribuicao"])
        ELSE IF lib = "raise"
        THEN Raise("Exception")
        ELSE Return([ column |-> column,
                      distribution_type |-> Computed,
                      statistics |-> Computed,
                      normality_tests |-> Computed,
                      percentiles |-> Computed ])

\* DataAnalyzer.analyze_distribution
analyze_distribution(self, column, lib) ==
    OrErrorPayload(DistributionBody(self, column, lib),
                   "Erro na analise de distribuicao")

\* the try body of perform_pca_analysis
PcaBody(self, lib) ==
    LET numeric_cols == self.metadata.numeric_cols
        data == CompleteRows(self.df, Elems(numeric_cols))
    IN  IF Len(numeric_cols) < 3
        THEN Return([error |-> "PCA requer pelo menos 3 variaveis numericas"])
        ELSE IF Cardinality(data) < 10
        THEN Return([error |-> "Dados insuficientes para PCA"])
        ELSE IF lib = "raise"
        THEN Raise("Exception")
        ELSE Return([ explained_variance_ratio |-> Computed,
                      cumulative_variance |-> Computed,
                      n_components |-> Computed,
                      components |-> Computed,
                      total_variance_explained |-> Computed,
                      recommendation |-> Computed ])

\* DataAnalyzer.perform_pca_analysis
perform_pca_analysis(self, lib) ==
    OrErrorPayload(PcaBody(self, lib), "Erro na analise PCA")

\* the try body of analyze_missing_data_patterns
MissingBody(self, lib) ==
    LET df == self.df
        with_missing == { c \in Elems(Columns(df)) :
                             Cardinality(Present(df, c)) < df.nrows }
    IN  IF lib = "raise"
        THEN Raise("Exception")
        ELSE Return([ missing_by_column |->
                          [c \in with_missing |->
                              df.nrows - Cardinality(Present(df, c))],
                      total_missing |-> AssessDataQuality(df).missing_cells,
                      missing_percentage |-> Computed,
                      columns_with_missing |-> with_missing,
                      complete_cases |->
                          Cardinality(CompleteRows(df, Elems(Columns(df)))),
                      complete_cases_percentage |-> Computed,
                      missing_correlation_matrix |-> Computed ])

\* DataAnalyzer.analyze_missing_data_patterns
analyze_missing_data_patterns(self, lib) ==
    OrErrorPayload(MissingBody(self, lib), "Erro na analise de missing data")

(***************************************************************************)
(* State.                                                                  *)
(***************************************************************************)
VARIABLES
    store,      \* session id -> the stored session file
    mgr,        \* script run -> its MemoryManager (or NoManager)
    now,        \* the clock datetime.now() reads
    hist,       \* session id -> history of the session file (not program state)
    faults,     \* the number of file reads and writes that failed so far
    upload,     \* the dataframe load_data read from the uploaded file
    analyzer,   \* the DataAnalyzer of the profiling step (or NoAnalyzer)
    agent,      \* the BaseAgent of the backend and its calls in flight (or NoAgent)
    last        \* the last operation, its inputs and what it returned

vars == << store, mgr, now, hist, faults, upload, analyzer, agent, last >>

\* the script runs (browser tabs) that can hold a MemoryManager at a time
Runs == { "tab1", "tab2" }

\* outcomes of writing the session file
WriteOutcomes == { "ok", "open_fail", "write_fail" }

\* outcomes of opening the session file for reading
ReadOutcomes == { "ok", "fail" }

\* question texts
Questions == { "q1" }

\* answer and conclusion texts
Answers == { "t1" }

\* insight texts
Texts == { "t1", "t2" }

\* the category the model passes with each insight text
CategoryOf(text) == IF text = "t1" THEN "summary" ELSE "correlation"

\* analysis tags passed as chart type of a query
ChartTypes == { "summary" }

\* model names of the sidebar selector
ModelNames == { "gpt-4o" }

\* no MemoryManager in this run
NoManager == [alive |-> FALSE]

\* no dataset uploaded
NoUpload == [nrows |-> 0, cols |-> << >>, index |-> << >>, seed |-> 0]

\* no DataAnalyzer constructed
NoAnalyzer == [built |-> FALSE]

\* no agent constructed
NoAgent == [made |-> FALSE]

\* the record a previous session left in the store: one query, three insights
SeededMemory ==
    [ queries |-> << QueryEntry(-3, "q1", "t1", "summary") >>,
      insights |-> << InsightEntry(-3, "t1", "summary"),
                      InsightEntry(-2, "t2", "correlation"),
                      InsightEntry(-1, "t1", "correlation") >>,
      conclusions |-> << >>,
      created_at |-> -4,
      selected_model |-> None ]

\* history of a session file: every entry whose append was written
\* successfully, in order, and whether reading or writing the file ever failed
HistOf(file) ==
    LET m == IF file.kind = "json" THEN JsonLoad(file.doc) ELSE EmptyMemory(0)
    IN  [ queries |-> m.queries, insights |-> m.insights,
          conclusions |-> m.conclusions, failed |-> FALSE ]

\* the initial value of last
NoOp == [op |-> "none", run |-> "none", io |-> "none", warned |-> FALSE,
         raised |-> FALSE, arg |-> None, ret |-> None]

MemoryInit ==
    /\ store \in { [k \in SessionIds |-> Absent],
                    [k \in SessionIds |->
                       IF k = generate_session_id(<<97>>)
                       THEN JsonFile(JsonDump(SeededMemory)) ELSE Absent] }
    /\ mgr = [r \in Runs |-> NoManager]
    /\ now = 1
    /\ faults = 0
    /\ hist = [k \in SessionIds |-> HistOf(store[k])]
    /\ upload = NoUpload
    /\ agent = NoAgent
    /\ analyzer = NoAnalyzer
    /\ last = NoOp

(***************************************************************************)
(* MemoryManager operations, as main() runs them.                          *)
(***************************************************************************)
\* MemoryManager(session_id) for the uploaded file: main() derives the
\* session id from the file bytes and constructs the manager, which loads
\* the stored record
NewManager(r, file_content, rd) ==
    LET sid == generate_session_id(file_content)
        memory == LoadMemory(store[sid], rd, now)
        fresh == memory = EmptyMemory(now)
    IN  /\ fresh => now <= MaxTime
        /\ store[sid].kind = "absent" => rd = "ok"
        /\ rd # "ok" => faults < MaxFaults
        /\ faults' = IF rd # "ok" THEN faults + 1 ELSE faults
        /\ mgr' = [mgr EXCEPT ![r] =
                     [alive |-> TRUE, file_content |-> file_content,
                      session_id |-> sid, memory |-> memory,
                      loaded |-> memory, pending |-> << >>]]
        /\ now' = IF fresh THEN now + 1 ELSE now
        /\ hist' = [hist EXCEPT
                      ![sid].failed = @ \/ (store[sid].kind # "absent"
                                            /\ (rd # "ok" \/ store[sid].kind # "json"))]
        /\ last' = [NoOp EXCEPT !.op = "MemoryManager", !.run = r, !.io = rd,
                                !.ret = memory]
        /\ UNCHANGED << store, upload, analyzer, agent >>

\* the common part of the four save_* operations: the record is mutated to
\* newMemory, then persisted with outcome io
Mutate(r, op, newMemory, entry, kind, io) ==
    LET sid == mgr[r].session_id
        p == Persist(store[sid], newMemory, io)
    IN  /\ io # "ok" => faults < MaxFaults
        /\ faults' = IF io # "ok" THEN faults + 1 ELSE faults
        /\ store' = [store EXCEPT ![sid] = p.file]
        /\ mgr' = [mgr EXCEPT ![r].memory = newMemory,
                              ![r].pending = IF io = "ok" THEN << >>
                                             ELSE IF kind = "model" THEN @
                                             ELSE Append(@, <<kind, entry>>)]
        /\ hist' = [hist EXCEPT
                      ![sid].failed = @ \/ io # "ok",
                      ![sid].queries =
                          IF io = "ok" /\ kind = "query" THEN Append(@, entry) ELSE @,
                      ![sid].insights =
                          IF io = "ok" /\ kind = "insight" THEN Append(@, entry) ELSE @,
                      ![sid].conclusions =
                          IF io = "ok" /\ kind = "conclusion" THEN Append(@, entry) ELSE @]
        /\ last' = [NoOp EXCEPT !.op = op, !.run = r, !.io = io,
                                !.warned = p.warned, !.raised = p.raised,
                                !.arg = entry]
        /\ UNCHANGED << upload, analyzer, agent >>

\* mutant of save_query: the list is replaced by the new entry
save_query_Replaces(memory, ts, question, answer, chart_type) ==
    [memory EXCEPT !.queries = << [timestamp |-> ts, question |-> question,
                                   answer |-> answer, chart_type |-> chart_type] >>]

\* what save_query does to the record
save_query(memory, ts, question, answer, chart_type) ==
    [memory EXCEPT !.queries = Append(@, QueryEntry(ts, question, answer, chart_type))]

\* what save_insight does to the record
save_insight(memory, ts, insight, category) ==
    [memory EXCEPT !.insights = Append(@, InsightEntry(ts, insight, category))]

\* what save_conclusion does to the record
save_conclusion(memory, ts, conclusion) ==
    [memory EXCEPT !.conclusions = Append(@, ConclusionEntry(ts, conclusion))]

\* what save_selected_model does to the record
save_selected_model(memory, model_name) ==
    [memory EXCEPT !.selected_model = model_name]

SaveQuery(r, question, answer, chart_type, io) ==
    /\ mgr[r].alive
    /\ now <= MaxTime
    /\ now' = now + 1
    /\ Mutate(r, "save_query",
              save_query(mgr[r].memory, now, question, answer, chart_type),
              QueryEntry(now, question, answer, chart_type), "query", io)

SaveInsight(r, insight, category, io) ==
    /\ mgr[r].alive
    /\ now <= MaxTime
    /\ now' = now + 1
    /\ Mutate(r, "save_insight",
              save_insight(mgr[r].memory, now, insight, category),
              InsightEntry(now, insight, category), "insight", io)

SaveConclusion(r, conclusion, io) ==
    /\ mgr[r].alive
    /\ now <= MaxTime
    /\ now' = now + 1
    /\ Mutate(r, "save_conclusion",
              save_conclusion(mgr[r].memory, now, conclusion),
              ConclusionEntry(now, conclusion), "conclusion", io)

SaveSelectedModel(r, model_name, io) ==
    /\ mgr[r].alive
    /\ mgr[r].memory.selected_model # model_name
    /\ UNCHANGED now
    /\ Mutate(r, "save_selected_model",
              save_selected_model(mgr[r].memory, model_name),
              model_name, "model", io)

\* memory_mgr.get_context_summary(): reads the record, writes nothing
GetContextSummary(r) ==
    /\ mgr[r].alive
    /\ last' = [NoOp EXCEPT !.op = "get_context_summary", !.run = r,
                            !.ret = ContextSummary(mgr[r].memory)]
    /\ UNCHANGED << store, mgr, now, hist, faults, upload, analyzer, agent >>

\* main() returns: the run's MemoryManager is dropped, the file stays
EndRun(r) ==
    /\ mgr[r].alive
    /\ mgr' = [mgr EXCEPT ![r] = NoManager]
    /\ last' = [NoOp EXCEPT !.op = "end", !.run = r]
    /\ UNCHANGED << store, now, hist, faults, upload, analyzer, agent >>

\* the operations of the script runs of R on the session memory, given the
\* uploads of F and the outcomes Rd of reading and Wr of writing a session file
MemoryNextOf(R, F, Rd, Wr) ==
    \/ \E r \in R, f \in F, rd \in Rd : NewManager(r, f, rd)
    \/ \E r \in R, q \in Questions, a \in Answers, c \in ChartTypes, io \in Wr :
          SaveQuery(r, q, a, c, io)
    \/ \E r \in R, i \in Texts, io \in Wr : SaveInsight(r, i, CategoryOf(i), io)
    \/ \E r \in R, t \in Answers, io \in Wr : SaveConclusion(r, t, io)
    \/ \E r \in R, n \in ModelNames, io \in Wr : SaveSelectedModel(r, n, io)
    \/ \E r \in R : GetContextSummary(r)
    \/ \E r \in R : EndRun(r)

\* one script run at a time: every upload or rerun constructs a new manager
MemoryNext == MemoryNextOf({"tab1"}, Files, ReadOutcomes, WriteOutcomes)

\* two script runs (two browser tabs) of the same upload, interleaved, with
\* no failing read or write
TabsNext == MemoryNextOf(Runs, { <<97>> }, {"ok"}, {"ok"})

\* the session memory used by one script run at a time
SpecMemory == MemoryInit /\ [][MemoryNext]_vars

\* the session memory of one upload under any interleaving of two script runs
SpecTabs == MemoryInit /\ [][TabsNext]_vars


(***************************************************************************)
(* DataAnalyzer operations, as main() runs them.                           *)
(***************************************************************************)
memoryVars == << store, mgr, now, hist, faults >>

\* column names passed to the operations: unknown names (0 and names past
\* the last column) among them
ColumnArgs == 0..3 \cup { MAX_COLUMNS_FOR_ANALYSIS, MAX_COLUMNS_FOR_ANALYSIS + 1 }

\* method names passed to detect_anomalies
MethodArgs == AnomalyMethods \cup { "lof" }

\* outcomes of the library calls of an operation
LibOutcomes == { "ok", "raise" }

AnalyzerInit ==
    /\ store = [k \in SessionIds |-> Absent]
    /\ mgr = [r \in Runs |-> NoManager]
    /\ now = 1
    /\ faults = 0
    /\ hist = [k \in SessionIds |-> HistOf(store[k])]
    /\ upload \in Datasets
    /\ agent = NoAgent
    /\ analyzer = NoAnalyzer
    /\ last = NoOp

\* analyzer = DataAnalyzer(df, session_id), once per script run: a ValueError
\* of the validation leaves no analyzer
Construct ==
    LET r == NewDataAnalyzer(upload)
    IN  /\ last.op = "none"
        /\ analyzer' = IF r.raised THEN NoAnalyzer ELSE r.value
        /\ last' = [NoOp EXCEPT !.op = "DataAnalyzer", !.raised = r.raised,
                                !.ret = IF r.raised THEN r.error ELSE None]
        /\ UNCHANGED << upload, memoryVars, agent >>

\* an operation of the constructed analyzer returned (or raised) r and left
\* the dataframe df in self.df (the operations other than temporal_analysis
\* assign to no column of a frame: they read self.df into new objects)
Analyzed(op, arg, r, df) ==
    /\ last' = [NoOp EXCEPT !.op = op, !.arg = arg, !.raised = r.raised,
                            !.ret = IF r.raised THEN r.error ELSE r.value]
    /\ analyzer' = [analyzer EXCEPT !.df = df]
    /\ UNCHANGED << upload, memoryVars, agent >>

ComputeCorrelation(lib) ==
    /\ analyzer.built
    /\ Analyzed("compute_correlation_analysis", << >>,
                compute_correlation_analysis(analyzer, lib), analyzer.df)

DetectAnomalies(column, method, lib) ==
    /\ analyzer.built
    /\ Analyzed("detect_anomalies", << column, method >>,
                detect_anomalies(analyzer, column, method, lib), analyzer.df)

TemporalAnalysis(time_col, value_col, lib) ==
    /\ analyzer.built
    /\ Analyzed("temporal_analysis", << time_col, value_col >>,
                temporal_analysis(analyzer, time_col, value_col, lib),
                TemporalEffect(analyzer, time_col, value_col, lib))

AnalyzeDistribution(column, lib) ==
    /\ analyzer.built
    /\ Analyzed("analyze_distribution", << column >>,
                analyze_distribution(analyzer, column, lib), analyzer.df)

PerformPca(lib) ==
    /\ analyzer.built
    /\ Analyzed("perform_pca_analysis", << >>, perform_pca_analysis(analyzer, lib),
                analyzer.df)

AnalyzeMissing(lib) ==
    /\ analyzer.built
    /\ Analyzed("analyze_missing_data_patterns", << >>,
                analyze_missing_data_patterns(analyzer, lib), analyzer.df)

AnalyzerNext ==
    \/ Construct
    \/ \E lib \in LibOutcomes : ComputeCorrelation(lib)
    \/ \E c \in ColumnArgs, m \in MethodArgs, lib \in LibOutcomes :
          DetectAnomalies(c, m, lib)
    \/ \E t \in ColumnArgs, v \in ColumnArgs, lib \in LibOutcomes :
          TemporalAnalysis(t, v, lib)
    \/ \E c \in ColumnArgs, lib \in LibOutcomes : AnalyzeDistribution(c, lib)
    \/ \E lib \in LibOutcomes : PerformPca(lib)
    \/ \E lib \in LibOutcomes : AnalyzeMissing(lib)

\* profiling an uploaded dataset and running the analysis operations on it
SpecAnalyzer == AnalyzerInit /\ [][AnalyzerNext]_vars

(***************************************************************************)
(* Datasets whose cells are listed: a cluster with one extreme value, a    *)
(* column with many values outside its quartiles, and numeric columns that *)
(* correlate.                                                              *)
(***************************************************************************)
\* a numeric column of the listed values, none missing
NumV(vals) == [kind |-> "num", miss |-> {}, dates |-> FALSE, vals |-> vals]

\* n values 1..spread in turn, with the value of row p replaced by extreme
OutlierColumn(n, spread, p, extreme) ==
    NumV([i \in 1..n |-> IF i = p THEN extreme ELSE ((i - 1) % spread) + 1])

\* one column: a cluster of values of 1..5 and one extreme value
OutlierDatasets ==
    UNION { { DataFrame(n, << OutlierColumn(n, spread, p, extreme) >>) :
                spread \in { 1, 5 }, p \in 1..n, extreme \in { 1000, 0 - 1000 } } :
            n \in 6..MaxRows }

\* 46 rows: a column with 22 values outside its quartiles, which are both 0,
\* and a column of the row numbers
ManyAnomalies ==
    DataFrame(46, << NumV([i \in 1..46 |-> IF i <= 11 THEN 0 - 10
                                            ELSE IF i <= 22 THEN 10 ELSE 0]),
                     Num({}) >>)

\* ten rows of MaxCorrelated numeric columns and an object column, for four
\* correlation matrices
CorrelatedDatasets ==
    { [DataFrame(10, [c \in 1..(MaxCorrelated + 1) |->
                         IF c = 3 THEN Cat({}, FALSE) ELSE Num({})])
          EXCEPT !.seed = k] : k \in 0..3 }

\* a numeric time column in file order with a numeric value column: the
\* four readings 0, 30, 65, 100, and a fifth; ten and eleven readings that start at
\* shift + 30 seconds, out of order, the last one far from the others, with
\* values that rise with every reading but the last; the same with one
\* reading missing; ten readings of the same second
TimedDatasets ==
    { DataFrame(4, << NumV(<< 0, 30, 65, 100 >>), NumV(<< 5, 6, 7, 8 >>) >>),
      DataFrame(5, << NumV(<< 0, 30, 65, 100, 130 >>),
                      NumV(<< 5, 6, 7, 8, 9 >>) >>),
      DataFrame(10, << NumV([i \in 1..10 |-> 7]), Num({}) >>) }
    \cup
    UNION { { DataFrame(10, << NumV(<< shift + 130, shift + 30, shift + 65,
                                      shift + 100, shift + 200, shift + 260,
                                      shift + 300, shift + 420, shift + 500,
                                      shift + 1030 >>),
                              NumV(<< 3, 0, 1, 2, 4, 5, 6, 7, 8, 0 - 5 >>) >>),
              DataFrame(MaxRows,
                        << [NumV([i \in 1..MaxRows |->
                                     IF i = 2 THEN shift ELSE shift + 500 - 40 * i])
                              EXCEPT !.miss = { lost }],
                           Num({}) >>) } :
            shift \in { 0, 30 }, lost \in { 2, 3 } }

ValuedDatasets ==
    OutlierDatasets \cup { ManyAnomalies } \cup CorrelatedDatasets
        \cup TimedDatasets

ValuesInit ==
    /\ store = [k \in SessionIds |-> Absent]
    /\ mgr = [r \in Runs |-> NoManager]
    /\ now = 1
    /\ faults = 0
    /\ hist = [k \in SessionIds |-> HistOf(store[k])]
    /\ upload \in ValuedDatasets
    /\ agent = NoAgent
    /\ analyzer = NoAnalyzer
    /\ last = NoOp

\* the analysis operations on the datasets whose cells are listed
SpecValues == ValuesInit /\ [][AnalyzerNext]_vars

(***************************************************************************)
(* LLMQueryProcessor.interpret_query.  The reply of the text-completion    *)
(* call is an input: the call raises, the response has no choice, or the   *)
(* first choice carries a content, which is None, a dict, or a string.  A  *)
(* string is either no JSON text or the text of a JSON value.              *)
(***************************************************************************)
\* the empty dict {}
EmptyDict == << >>

\* the operation tags the system prompt asks for
AnalysisTypes ==
    { "correlation", "anomaly", "distribution", "temporal", "summary",
      "conclusion", "pca", "missing_patterns", "suggestions" }

\* the column name 'ALL_NUMERIC' of the distribution request (a column name
\* is a number in this model; no dataset has a column of this name)
ALL_NUMERIC == -1

\* the "parameters" objects of the replies of the model
ReplyParameters ==
    { EmptyDict,
      [column |-> 1, method |-> "iqr"],
      [column |-> 0, method |-> "lof"],
      [column |-> 2, method |-> "zscore"],
      [column |-> 3],
      [column |-> ALL_NUMERIC],
      [columns |-> << 2, 4 >>],
      [time_column |-> 1, value_column |-> 2],
      [time_column |-> 1, value_column |-> 4] }

\* the JSON objects of the replies: analysis_type is a tag, an unknown
\* string, null or missing; parameters may be missing
ReplyObjects ==
    { [analysis_type |-> t, parameters |-> p, reasoning |-> "because"] :
         t \in AnalysisTypes \cup { "clustering", JsonNull }, p \in ReplyParameters }
    \cup { [analysis_type |-> t, reasoning |-> "because"] :
              t \in AnalysisTypes \cup { "clustering" } }
    \cup { [parameters |-> p, reasoning |-> "because"] : p \in ReplyParameters }

\* a string that is the text of the JSON value j
JsonText(j) == [py |-> "str", valid |-> TRUE, json |-> j]

\* a string that is not a JSON text: empty, prose, or a cut-off object
NotJson(what) == [py |-> "str", valid |-> FALSE, text |-> what]

\* a dict object
PyDict(d) == [py |-> "dict", value |-> d]

\* the None object as message content
PyNone == [py |-> "None"]

\* the contents of the first choice's message
Contents ==
    { PyNone, NotJson("empty"), NotJson("prose"), NotJson("truncated") }
    \cup { JsonText([t |-> "object", members |-> o]) : o \in ReplyObjects }
    \cup { JsonText([t |-> "array", items |-> << >>]),
           JsonText([t |-> "number", num |-> 42]),
           JsonText([t |-> "null"]) }
    \cup { PyDict(o) : o \in ReplyObjects }

\* the replies of client.chat.completions.create
Replies ==
    { [kind |-> "api_error"], [kind |-> "no_choices"] }
    \cup { [kind |-> "content", content |-> c] : c \in Contents }

\* json.loads of a JSON object: a dict, null members become None
LoadsObject(o) ==
    [k \in DOMAIN o |-> IF k = "parameters" THEN o[k] ELSE FromJson(o[k])]

\* json.loads(raw): raises TypeError for None, JSONDecodeError for a string
\* that is no JSON text; returns the Python value otherwise
JsonLoads(raw) ==
    IF raw.py # "str" THEN Raise("TypeError")
    ELSE IF ~raw.valid THEN Raise("JSONDecodeError")
    ELSE CASE raw.json.t = "object" -> Return(PyDict(LoadsObject(raw.json.members)))
           [] raw.json.t = "array" -> Return([py |-> "list", items |-> raw.json.items])
           [] raw.json.t = "number" -> Return([py |-> "int", num |-> raw.json.num])
           [] raw.json.t = "null" -> Return(PyNone)

\* the decision interpret_query falls back to
Fallback(reasoning) ==
    PyDict([analysis_type |-> "summary", parameters |-> EmptyDict,
            reasoning |-> reasoning])

\* the user prompt interpret_query builds from its arguments
UserPrompt(question, metadata, context) ==
    [ question |-> question,
      cols_sample |-> FirstN(metadata.columns, 20),
      num_cols_sample |-> FirstN(metadata.numeric_cols, 15),
      shape |-> metadata.shape,
      context |-> context ]

\* mutant of InterpretBody: a response whose content does not parse falls
\* back to the correlation operation
InterpretBody_WrongFallback(reply) ==
    IF reply.kind = "api_error" THEN Raise("APIError")
    ELSE IF reply.kind = "no_choices" THEN Raise("IndexError")
    ELSE LET raw == reply.content
         IN  IF raw.py = "dict" THEN Return(raw)
             ELSE IF JsonLoads(raw).raised
                  THEN Return(PyDict([analysis_type |-> "correlation",
                                      parameters |-> EmptyDict,
                                      reasoning |-> "Fallback: resposta nao-JSON"]))
                  ELSE JsonLoads(raw)

\* the try body of interpret_query
InterpretBody(reply) ==
    IF reply.kind = "api_error" THEN Raise("APIError")
    ELSE IF reply.kind = "no_choices" THEN Raise("IndexError")
    ELSE LET raw == reply.content
         IN  IF raw.py = "dict" THEN Return(raw)
             ELSE IF JsonLoads(raw).raised
                  THEN Return(Fallback("Fallback: resposta nao-JSON"))
                  ELSE JsonLoads(raw)

\* LLMQueryProcessor.interpret_query: the except clause of the call reports
\* the error with st.error and returns the fallback decision
interpret_query(question, metadata, context, reply) ==
    LET body == InterpretBody(reply)
    IN  IF body.raised
        THEN [ raised |-> FALSE, shown |-> TRUE,
               value |-> Fallback("Fallback devido a erro") ]
        ELSE [ raised |-> FALSE, shown |-> FALSE, value |-> body.value ]

\* the datasets profiled before a question is asked
ResolverDatasets ==
    { DataFrame(10, << Num({}), Num({1}), Cat({}, FALSE) >>),
      DataFrame(5, Wide(MAX_COLUMNS_FOR_ANALYSIS + 1)) }

\* the context summaries passed with a question
Contexts == { ContextSummary(EmptyMemory(0)), ContextSummary(SeededMemory) }

\* the questions asked
ResolverQuestions == { "q1", "q2" }

ResolverInit ==
    /\ store = [k \in SessionIds |-> Absent]
    /\ mgr = [r \in Runs |-> NoManager]
    /\ now = 1
    /\ faults = 0
    /\ hist = [k \in SessionIds |-> HistOf(store[k])]
    /\ upload \in ResolverDatasets
    /\ agent = NoAgent
    /\ analyzer = NewDataAnalyzer(upload).value
    /\ last = NoOp

\* interpretation = llm_processor.interpret_query(question, metadata, context)
InterpretQuery(question, context, reply) ==
    LET r == interpret_query(question, analyzer.metadata, context, reply)
    IN  /\ last' = [NoOp EXCEPT
                      !.op = "interpret_query",
                      !.arg = << UserPrompt(question, analyzer.metadata, context),
                                 reply >>,
                      !.raised = r.raised, !.warned = r.shown, !.ret = r.value]
        /\ UNCHANGED << upload, analyzer, memoryVars, agent >>

ResolverNext ==
    \E q \in ResolverQuestions, c \in Contexts, reply \in Replies :
        InterpretQuery(q, c, reply)

\* resolving questions against a profiled dataset
SpecResolver == ResolverInit /\ [][ResolverNext]_vars

(***************************************************************************)
(* LLMQueryProcessor.generate_insight and generate_conclusions.  The reply *)
(* of the text-completion call is an input; its content is None, the empty *)
(* string or a text.                                                       *)
(***************************************************************************)
\* the replies of client.chat.completions.create to a generation request
TextReplies ==
    { [kind |-> "api_error"], [kind |-> "no_choices"] }
    \cup { [kind |-> "content", content |-> c] : c \in { None, "", "t1" } }

\* s repeated n times
RECURSIVE Repeat(_, _)
Repeat(s, n) == IF n = 0 THEN "" ELSE s \o Repeat(s, n - 1)

\* str(analysis_result): the name of the first key and the text of the
\* values; a result that holds a DataFrame or a matrix prints long
StrOf(result) ==
    LET keys == DOMAIN result
    IN  CASE "data" \in keys -> "{'has_trend': True, 'data': " \o Repeat("0123456789", 90)
          [] "correlation_matrix" \in keys ->
               "{'correlation_matrix': " \o Repeat("0123456789", 60)
          [] "error" \in keys -> "{'error': '" \o result.error \o "'}"
          [] OTHER -> "{" \o Repeat("0123456789", 12) \o "}"

\* s[:n] of a string
Truncate(s, n) == IF Len(s) <= n THEN s ELSE SubSeq(s, 1, n)

\* the try body of generate_insight and of generate_conclusions
GenerateBody(reply) ==
    IF reply.kind = "api_error" THEN Raise("APIError")
    ELSE IF reply.kind = "no_choices" THEN Raise("IndexError")
    ELSE Return(reply.content)

\* mutant of generate_insight: the call is not guarded by try/except
generate_insight_NoCatch(analysis_result, question, reply) ==
    GenerateBody(reply)

\* LLMQueryProcessor.generate_insight
generate_insight(analysis_result, question, reply) ==
    LET body == GenerateBody(reply)
    IN  IF body.raised
        THEN Return("Analise concluida. Resultados: "
                    \o Truncate(StrOf(analysis_result), 300))
        ELSE body

\* the user prompt of generate_conclusions: the shape of the dataset and the
\* texts of the last ten insights of the record
ConclusionPrompt(memory, metadata) ==
    LET n == Len(memory.insights)
        insights_list == SubSeq(memory.insights, IF n > 10 THEN n - 9 ELSE 1, n)
    IN  [ num_rows |-> metadata.shape[1],
          num_cols |-> metadata.shape[2],
          num_numeric |-> Len(metadata.numeric_cols),
          insights_text |-> [i \in 1..Len(insights_list) |->
                                insights_list[i].insight] ]

\* mutant of generate_conclusions: the call is not guarded by try/except
generate_conclusions_NoCatch(memory, metadata, reply) ==
    GenerateBody(reply)

\* LLMQueryProcessor.generate_conclusions
generate_conclusions(memory, metadata, reply) ==
    LET body == GenerateBody(reply)
    IN  IF body.raised
        THEN Return("Erro ao gerar conclusoes: " \o body.error)
        ELSE body

(***************************************************************************)
(* DataAnalyzer.get_summary and suggest_analyses.                          *)
(***************************************************************************)

\* DataAnalyzer.get_summary
get_summary(self) ==
    [ shape |-> self.metadata.shape,
      columns |-> Len(self.metadata.columns),
      numeric_cols |-> Len(self.metadata.numeric_cols),
      categorical_cols |-> Len(self.metadata.categorical_cols),
      missing_values |-> SumSeq(self.metadata.missing_values),
      sample_stats |-> self.metadata.sample_stats ]

\* DataAnalyzer.suggest_analyses: the suggested analysis tags, in order
suggest_analyses(self) ==
    LET n == Len(self.metadata.numeric_cols)
    IN  (IF n >= 2 THEN << "correlation" >> ELSE << >>)
        \o (IF n >= 1 THEN << "distribution" >> ELSE << >>)
        \o (IF n >= 3 THEN << "pca" >> ELSE << >>)
        \o (IF self.metadata.data_quality.missing_cells > 0
            THEN << "missing_patterns" >> ELSE << >>)

(***************************************************************************)
(* main(): the handler of the "Analisar" button.  The steps between the    *)
(* question and the session memory, as one function of the inputs.         *)
(***************************************************************************)
\* d.get(k, default)
Get(d, k, default) == IF k \in DOMAIN d THEN d[k] ELSE default

\* result = None / a result dict
NoResult == [some |-> FALSE]

Some(v) == [some |-> TRUE, value |-> v]

\* one call of an analysis operation: its name, its column arguments and
\* whether it returned an error payload
OpCall(op, args, ret) ==
    [op |-> op, args |-> args, failed |-> "error" \in DOMAIN ret]

\* the columns of a distribution request: params.get('column') or
\* params.get('columns') or [], then the three isinstance cases
DistributionCols(params, numeric_cols) ==
    IF "column" \in DOMAIN params
    THEN IF params.column = ALL_NUMERIC THEN numeric_cols ELSE << params.column >>
    ELSE IF "columns" \in DOMAIN params /\ Len(params.columns) > 0
    THEN params.columns
    ELSE FirstN(numeric_cols, 6)

\* the temporal branch: both parameters given, then the operation
DispatchTemporal(self, params, lib) ==
    IF "time_column" \in DOMAIN params /\ "value_column" \in DOMAIN params
    THEN LET r == temporal_analysis(self, params.time_column,
                                    params.value_column, lib).value
         IN  [ result |-> Some(r),
               calls |-> << OpCall("temporal_analysis",
                                   << params.time_column, params.value_column >>, r) >> ]
    ELSE [ result |-> Some([error |-> "Especifique time_column e value_column"]),
           calls |-> << >> ]

\* mutant of DispatchAnomaly: the column is not checked against the metadata
DispatchAnomaly_Unchecked(self, params, lib) ==
    IF "column" \in DOMAIN params
    THEN LET method == Get(params, "method", "iqr")
             r == detect_anomalies(self, params.column, method, lib).value
         IN  [ result |-> Some(r),
               calls |-> << OpCall("detect_anomalies", << params.column >>, r) >> ]
    ELSE [ result |-> Some([error |-> "Especifique o parametro 'column'"]),
           calls |-> << >> ]

\* the anomaly branch: the column must be a numeric column of the metadata
DispatchAnomaly(self, params, lib) ==
    IF "column" \in DOMAIN params
       /\ params.column \in Elems(self.metadata.numeric_cols)
    THEN LET method == Get(params, "method", "iqr")
             r == detect_anomalies(self, params.column, method, lib).value
         IN  [ result |-> Some(r),
               calls |-> << OpCall("detect_anomalies", << params.column >>, r) >> ]
    ELSE [ result |-> Some([error |-> "Especifique o parametro 'column'"]),
           calls |-> << >> ]

\* the distribution branch: the operation is called for every requested
\* column that is numeric; its return value is collected and not inspected
DispatchDistribution(self, params, lib) ==
    LET cols == DistributionCols(params, self.metadata.numeric_cols)
        IsNumeric(c) == c \in Elems(self.metadata.numeric_cols)
        valid == SelectSeq(cols, IsNumeric)
    IN  [ result |->
              IF Len(valid) > 0
              THEN Some([columns |-> cols, status |-> "Graficos gerados",
                         count |-> Len(valid)])
              ELSE Some([error |-> "Nenhuma coluna valida encontrada"]),
          calls |-> [i \in 1..Len(valid) |->
                       OpCall("analyze_distribution", << valid[i] >>,
                              analyze_distribution(self, valid[i], lib).value)] ]

\* a branch that calls one operation without arguments
DispatchPlain(op, r) ==
    [ result |-> Some(r), calls |-> << OpCall(op, << >>, r) >> ]

Dispatch_DefaultsToSummary(self, analysis_type, params, lib) ==
    CASE analysis_type = "correlation" ->
           DispatchPlain("compute_correlation_analysis",
                         compute_correlation_analysis(self, lib).value)
      [] analysis_type = "anomaly" -> DispatchAnomaly(self, params, lib)
      [] analysis_type = "distribution" -> DispatchDistribution(self, params, lib)
      [] analysis_type = "temporal" -> DispatchTemporal(self, params, lib)
      [] analysis_type = "pca" ->
           DispatchPlain("perform_pca_analysis", perform_pca_analysis(self, lib).value)
      [] analysis_type = "missing_patterns" ->
           DispatchPlain("analyze_missing_data_patterns",
                         analyze_missing_data_patterns(self, lib).value)
      [] analysis_type = "suggestions" ->
           DispatchPlain("suggest_analyses", [suggestions |-> suggest_analyses(self)])
      [] OTHER -> DispatchPlain("get_summary", get_summary(self))

\* the if / elif chain on analysis_type (the conclusion branch apart)
Dispatch(self, analysis_type, params, lib) ==
    CASE analysis_type = "summary" ->
           DispatchPlain("get_summary", get_summary(self))
      [] analysis_type = "correlation" ->
           DispatchPlain("compute_correlation_analysis",
                         compute_correlation_analysis(self, lib).value)
      [] analysis_type = "anomaly" -> DispatchAnomaly(self, params, lib)
      [] analysis_type = "distribution" -> DispatchDistribution(self, params, lib)
      [] analysis_type = "temporal" -> DispatchTemporal(self, params, lib)
      [] analysis_type = "pca" ->
           DispatchPlain("perform_pca_analysis", perform_pca_analysis(self, lib).value)
      [] analysis_type = "missing_patterns" ->
           DispatchPlain("analyze_missing_data_patterns",
                         analyze_missing_data_patterns(self, lib).value)
      [] analysis_type = "suggestions" ->
           DispatchPlain("suggest_analyses", [suggestions |-> suggest_analyses(self)])
      [] OTHER -> [result |-> NoResult, calls |-> << >>]

\* what the handler did when nothing was analysed
NothingDone ==
    [ caught |-> None, analysis_type |-> None, calls |-> << >>,
      result |-> NoResult, error_shown |-> FALSE,
      insight_called |-> FALSE, text |-> None, saves |-> << >> ]

\* the one element of a set of one element
The(S) == CHOOSE v \in S : TRUE

\* the handler after the dispatch returned d: the error of the result is
\* shown, or the insight is generated and the two entries are to be saved
AfterDispatch(d, analysis_type, question, treply) ==
    LET base == [NothingDone EXCEPT !.analysis_type = analysis_type,
                                    !.calls = d.calls,
                                    !.result = d.result]
    IN  IF ~d.result.some \/ analysis_type = "suggestions"
        THEN base
        ELSE IF "error" \in DOMAIN d.result.value
        THEN [base EXCEPT !.error_shown = TRUE]
        ELSE The({ IF i.raised
                   THEN [base EXCEPT !.insight_called = TRUE, !.caught = i.error]
                   ELSE [base EXCEPT
                           !.insight_called = TRUE,
                           !.text = i.value,
                           !.saves =
                              << [kind |-> "query", question |-> question,
                                  answer |-> i.value,
                                  chart_type |-> analysis_type],
                                 [kind |-> "insight", insight |-> i.value,
                                  category |-> analysis_type] >>] :
                   i \in { generate_insight(d.result.value, question, treply) } })

\* the try body of the handler up to the session memory: the context
\* summary, the interpretation, the dispatch, then the insight.  saves are
\* the save_* calls to make, in order.  An exception of the body is caught
\* by the except clause of the handler (caught names it).
AnalysisPipeline(self, memory, question, reply, treply, lib) ==
    LET context == ContextSummary(memory)
        decision == interpret_query(question, self.metadata, context, reply).value
    IN  IF decision.py # "dict"
        THEN [NothingDone EXCEPT !.caught = "AttributeError"]
        ELSE
        LET analysis_type == Get(decision.value, "analysis_type", "summary")
            params == Get(decision.value, "parameters", EmptyDict)
        IN  IF analysis_type = "conclusion"
            THEN LET c == generate_conclusions(memory, self.metadata, treply)
                 IN  IF c.raised
                     THEN [NothingDone EXCEPT !.analysis_type = analysis_type,
                                              !.caught = c.error]
                     ELSE [NothingDone EXCEPT
                             !.analysis_type = analysis_type,
                             !.result = Some([done |-> TRUE]),
                             !.text = c.value,
                             !.saves = << [kind |-> "conclusion", text |-> c.value] >>]
            ELSE
            The({ AfterDispatch(d, analysis_type, question, treply) :
                    d \in { Dispatch(self, analysis_type, params, lib) } })

\* the handler of the "Gerar Conclusoes Gerais" button
ConclusionPipeline(self, memory, treply) ==
    LET c == generate_conclusions(memory, self.metadata, treply)
    IN  IF c.raised
        THEN [NothingDone EXCEPT !.analysis_type = "conclusion", !.caught = c.error]
        ELSE [NothingDone EXCEPT
                !.analysis_type = "conclusion",
                !.text = c.value,
                !.saves = << [kind |-> "conclusion", text |-> c.value] >>]

\* the entry a save_* call appends at time ts
EntryOf(save, ts) ==
    CASE save.kind = "query" ->
           QueryEntry(ts, save.question, save.answer, save.chart_type)
      [] save.kind = "insight" -> InsightEntry(ts, save.insight, save.category)
      [] save.kind = "conclusion" -> ConclusionEntry(ts, save.text)

\* the record after a save_* call made at time ts
MemoryAfter(memory, save, ts) ==
    CASE save.kind = "query" ->
           save_query(memory, ts, save.question, save.answer, save.chart_type)
      [] save.kind = "insight" -> save_insight(memory, ts, save.insight, save.category)
      [] save.kind = "conclusion" -> save_conclusion(memory, ts, save.text)

\* the save_* calls of a handler, made in order by the manager of run r:
\* each reads the clock, mutates the record and persists it with the next
\* outcome of ios.  s holds store, mgr, hist, faults, now and warned.
RECURSIVE ApplySaves(_, _, _, _)
ApplySaves(s, r, saves, ios) ==
    IF saves = << >> THEN s
    ELSE LET save == Head(saves)
             io == Head(ios)
             sid == s.mgr[r].session_id
             entry == EntryOf(save, s.now)
             newMemory == MemoryAfter(s.mgr[r].memory, save, s.now)
             p == Persist(s.store[sid], newMemory, io)
             s1 == [ store |-> [s.store EXCEPT ![sid] = p.file],
                     mgr |-> [s.mgr EXCEPT
                                ![r].memory = newMemory,
                                ![r].pending = IF io = "ok" THEN << >>
                                               ELSE Append(@, << save.kind, entry >>)],
                     hist |-> [s.hist EXCEPT
                                 ![sid].failed = @ \/ io # "ok",
                                 ![sid].queries =
                                    IF io = "ok" /\ save.kind = "query"
                                    THEN Append(@, entry) ELSE @,
                                 ![sid].insights =
                                    IF io = "ok" /\ save.kind = "insight"
                                    THEN Append(@, entry) ELSE @,
                                 ![sid].conclusions =
                                    IF io = "ok" /\ save.kind = "conclusion"
                                    THEN Append(@, entry) ELSE @],
                     faults |-> IF io # "ok" THEN s.faults + 1 ELSE s.faults,
                     now |-> s.now + 1,
                     warned |-> s.warned \/ p.warned ]
         IN  ApplySaves(s1, r, Tail(saves), Tail(ios))

(***************************************************************************)
(* main(): a script run from the upload to the constructed components,     *)
(* and the two button handlers.                                            *)
(***************************************************************************)
\* the uploads of the pipeline: text and numeric columns, one numeric column
\* with 9 values; the same with 4 rows; three complete numeric columns
PipelineDatasets ==
    { DataFrame(10, << Cat({}, TRUE), Num({}), Num({1}), Cat({}, FALSE) >>),
      DataFrame(4, << Cat({}, TRUE), Num({}), Num({1}), Cat({}, FALSE) >>),
      DataFrame(11, << Num({}), Num({}), Num({}), Cat({}, FALSE) >>) }

\* load_data(uploaded_file): the file <<97>> holds the CSV text of the
\* dataset of the run; any other file is no CSV text and pd.read_csv raises
LoadData(file_content, dataset) ==
    IF file_content = << 97 >> THEN Return(dataset) ELSE Raise("ParserError")

PipelineInit ==
    /\ store \in { [k \in SessionIds |-> Absent],
                    [k \in SessionIds |->
                       IF k = generate_session_id(<<97>>)
                       THEN JsonFile(JsonDump(SeededMemory)) ELSE Absent] }
    /\ mgr = [r \in Runs |-> NoManager]
    /\ now = 1
    /\ faults = 0
    /\ hist = [k \in SessionIds |-> HistOf(store[k])]
    /\ upload \in PipelineDatasets
    /\ agent = NoAgent
    /\ analyzer = NoAnalyzer
    /\ last = NoOp

\* main() from the upload to the components: the session id, load_data in
\* its try (a failure is shown and st.stop ends the run), then
\* DataAnalyzer(df, session_id) and MemoryManager(session_id) outside any
\* try.  last.raised: an exception left main().
StartRun(r, file_content, rd) ==
    LET sid == generate_session_id(file_content)
        df == LoadData(file_content, upload)
        a == IF df.raised THEN df ELSE NewDataAnalyzer(df.value)
        memory == LoadMemory(store[sid], rd, now)
        fresh == memory = EmptyMemory(now)
    IN  IF a.raised
        THEN /\ analyzer' = NoAnalyzer
             /\ mgr' = [mgr EXCEPT ![r] = NoManager]
             /\ last' = [NoOp EXCEPT !.op = "main", !.run = r,
                                     !.raised = ~df.raised,
                                     !.warned = df.raised,
                                     !.ret = a.error]
             /\ UNCHANGED << store, now, hist, faults, upload, agent >>
        ELSE /\ fresh => now <= MaxTime
             /\ store[sid].kind = "absent" => rd = "ok"
             /\ rd # "ok" => faults < MaxFaults
             /\ faults' = IF rd # "ok" THEN faults + 1 ELSE faults
             /\ analyzer' = a.value
             /\ mgr' = [mgr EXCEPT ![r] =
                          [alive |-> TRUE, file_content |-> file_content,
                           session_id |-> sid, memory |-> memory,
                           loaded |-> memory, pending |-> << >>]]
             /\ now' = IF fresh THEN now + 1 ELSE now
             /\ hist' = [hist EXCEPT
                           ![sid].failed = @ \/ (store[sid].kind # "absent"
                                                 /\ (rd # "ok" \/ store[sid].kind # "json"))]
             /\ last' = [NoOp EXCEPT !.op = "main", !.run = r, !.io = rd,
                                     !.ret = "components"]
             /\ UNCHANGED << store, upload, agent >>

\* the save_* calls of a handler applied to the state; ios: the outcomes of
\* the writes, "ok" for a write that is not made
Handled(r, op, arg, p, ios) ==
    LET s0 == [ store |-> store, mgr |-> mgr, hist |-> hist, faults |-> faults,
                now |-> now, warned |-> FALSE ]
        s == ApplySaves(s0, r, p.saves, ios)
    IN  /\ \A i \in 1..Len(ios) : i > Len(p.saves) => ios[i] = "ok"
        /\ s.faults <= MaxFaults
        /\ store' = s.store
        /\ mgr' = s.mgr
        /\ hist' = s.hist
        /\ faults' = s.faults
        /\ now' = s.now
        /\ last' = [NoOp EXCEPT !.op = op, !.run = r, !.arg = arg,
                                !.warned = s.warned, !.ret = p]
        /\ UNCHANGED << upload, analyzer, agent >>

\* the "Analisar" button of the run, pressed with a question: the handler
\* runs once in the script run, inside try / except Exception.  The reply
\* of a generation call that is not made and the outcome of library calls
\* that are not made are not drawn (they are "api_error" and "ok").
AskQuestion(r, question, reply, treply, lib, ios) ==
    /\ last.op = "main"
    /\ analyzer.built
    /\ mgr[r].alive
    /\ now <= MaxTime
    /\ \E p \in { AnalysisPipeline(analyzer, mgr[r].memory, question, reply,
                                    treply, lib) } :
        /\ (~p.insight_called /\ p.analysis_type # "conclusion")
              => treply = [kind |-> "api_error"]
        /\ p.calls = << >> => lib = "ok"
        /\ Handled(r, "ask",
                   [question |-> question, reply |-> reply, treply |-> treply,
                    lib |-> lib, ios |-> ios],
                   p, ios)

\* the "Gerar Conclusoes Gerais" button of the run
GenerateConclusions(r, treply, io) ==
    /\ last.op = "main"
    /\ analyzer.built
    /\ mgr[r].alive
    /\ now <= MaxTime
    /\ Handled(r, "conclude", [treply |-> treply, ios |-> << io >>],
               ConclusionPipeline(analyzer, mgr[r].memory, treply), << io >>)

\* outcomes of the writes of a handler
HandlerWrites == { "ok", "write_fail" }

\* a reply object names parameters only with an operation that reads them
Pertinent(o) ==
    ("parameters" \in DOMAIN o /\ DOMAIN o.parameters # {}) =>
        /\ "analysis_type" \in DOMAIN o
        /\ o.analysis_type \in { "anomaly", "distribution", "temporal" }

\* the replies to the interpretation request of a question: the message
\* content of the service is a string or None
PipelineReplies ==
    { reply \in Replies :
         reply.kind = "content" =>
            IF reply.content.py = "dict" THEN FALSE
            ELSE IF reply.content.py = "str"
            THEN IF reply.content.valid
                 THEN IF reply.content.json.t = "object"
                      THEN Pertinent(reply.content.json.members)
                      ELSE TRUE
                 ELSE TRUE
            ELSE TRUE }

PipelineNext ==
    \/ \E f \in Files, rd \in ReadOutcomes : StartRun("tab1", f, rd)
    \/ \E q \in Questions, reply \in PipelineReplies, treply \in TextReplies,
          lib \in LibOutcomes, io1 \in HandlerWrites, io2 \in HandlerWrites :
          AskQuestion("tab1", q, reply, treply, lib, << io1, io2 >>)
    \/ \E treply \in TextReplies, io \in HandlerWrites :
          GenerateConclusions("tab1", treply, io)

\* script runs of one browser tab: upload, question, conclusions
SpecPipeline == PipelineInit /\ [][PipelineNext]_vars

(***************************************************************************)
(* Helpers of the properties.                                              *)
(***************************************************************************)
\* the operations that append an entry
AppendOps == { "save_query", "save_insight", "save_conclusion" }

\* the operations that mutate the record and persist it
SaveOps == AppendOps \cup { "save_selected_model" }

\* the entries of a record, each tagged with the list that holds it
Entries(memory) ==
    { <<"query", memory.queries[i]>> : i \in DOMAIN memory.queries }
    \cup { <<"insight", memory.insights[i]>> : i \in DOMAIN memory.insights }
    \cup { <<"conclusion", memory.conclusions[i]>> : i \in DOMAIN memory.conclusions }

\* s is t with exactly one more element at its end
ExtendsByOne(s, t) == Len(s) = Len(t) + 1 /\ SubSeq(s, 1, Len(t)) = t

(***************************************************************************)
(* C3 - identical file bytes give the same session key, and a manager      *)
(* created for a key whose file was only ever read and written             *)
(* successfully starts from the stored record: every entry appended        *)
(* earlier is there, in order, so later appends extend that record.        *)
(***************************************************************************)
C3_ResumesStoredRecord ==
    \A r \in Runs :
        (mgr[r].alive /\ last.op = "MemoryManager" /\ last.run = r) =>
            LET sid == mgr[r].session_id
                m == mgr[r].memory
            IN  /\ sid = generate_session_id(mgr[r].file_content)
                /\ \A f \in Files :
                      f = mgr[r].file_content => generate_session_id(f) = sid
                /\ (~hist[sid].failed /\ store[sid].kind = "json") =>
                      /\ JsonDump(m) = store[sid].doc
                      /\ m.queries = hist[sid].queries
                      /\ m.insights = hist[sid].insights
                      /\ m.conclusions = hist[sid].conclusions

\* a manager created after an append of this behaviour was persisted
C3_Witness ==
    \E r \in Runs :
        /\ mgr[r].alive /\ last.op = "MemoryManager" /\ last.run = r
        /\ ~hist[mgr[r].session_id].failed
        /\ \E e \in Entries(mgr[r].memory) : e[2].timestamp >= 1

(***************************************************************************)
(* C4 - the record of a manager is append-only: save_query, save_insight   *)
(* and save_conclusion add exactly one entry at the end of their own list  *)
(* and leave the other lists and created_at as they were; no other         *)
(* operation changes a list; no session file is ever deleted.              *)
(***************************************************************************)
C4_Step ==
    /\ \A r \in Runs :
          (mgr[r].alive /\ mgr'[r].alive
             /\ ~(last'.op = "MemoryManager" /\ last'.run = r)) =>
            LET a == mgr[r].memory
                b == mgr'[r].memory
                mine == last'.run = r
            IN  /\ b.created_at = a.created_at
                /\ IF mine /\ last'.op = "save_query"
                   THEN ExtendsByOne(b.queries, a.queries)
                   ELSE b.queries = a.queries
                /\ IF mine /\ last'.op = "save_insight"
                   THEN ExtendsByOne(b.insights, a.insights)
                   ELSE b.insights = a.insights
                /\ IF mine /\ last'.op = "save_conclusion"
                   THEN ExtendsByOne(b.conclusions, a.conclusions)
                   ELSE b.conclusions = a.conclusions
    /\ \A k \in SessionIds : store[k].kind # "absent" => store'[k].kind # "absent"

\* C4 - every step of a manager keeps the record append-only and no stored
\* file is deleted
C4_AppendOnly == [][C4_Step]_vars

\* an append to a record that already holds entries
C4_Witness ==
    /\ last.op \in AppendOps
    /\ Cardinality(Entries(mgr[last.run].memory)) >= 5

(***************************************************************************)
(* C5 - mutate-then-persist: when the write of a save_* operation          *)
(* succeeds, the stored file holds the whole in-memory record, and loading *)
(* it gives that record back.                                              *)
(***************************************************************************)
C5_PersistsWholeRecord ==
    (last.op \in SaveOps /\ last.io = "ok") =>
        LET r == last.run
            sid == mgr[r].session_id
        IN  /\ store[sid] = JsonFile(JsonDump(mgr[r].memory))
            /\ LoadMemory(store[sid], "ok", now) = mgr[r].memory

\* a successful write of a record that holds a model selection and entries
C5_Witness ==
    /\ last.op \in SaveOps /\ last.io = "ok"
    /\ mgr[last.run].memory.selected_model # None
    /\ Entries(mgr[last.run].memory) # {}

(***************************************************************************)
(* C6 - a failed write is not raised and not rolled back: the in-memory    *)
(* record keeps the new entry and a warning is shown; the next successful  *)
(* write stores the whole record, the entries whose write failed included. *)
(***************************************************************************)
C6_Step ==
    \A r \in Runs :
        (last'.op \in SaveOps /\ last'.run = r) =>
            /\ ~last'.raised
            /\ last'.io # "ok" =>
                  /\ last'.warned
                  /\ last'.op \in AppendOps =>
                        \E e \in Entries(mgr'[r].memory) : e[2] = last'.arg
                  /\ last'.op = "save_selected_model" =>
                        mgr'[r].memory.selected_model = last'.arg
            /\ last'.io = "ok" =>
                  /\ ~last'.warned
                  /\ store'[mgr[r].session_id].kind = "json"
                  /\ Elems(mgr[r].pending) \subseteq
                        Entries(JsonLoad(store'[mgr[r].session_id].doc))

\* C6 - every step keeps a failed write unraised, warned and not rolled
\* back, and the next successful write stores the whole record
C6_FailedWriteKept == [][C6_Step]_vars

\* a successful write right after a failed one
C6_Witness ==
    /\ last.op \in AppendOps /\ last.io = "ok"
    /\ faults = 1
    /\ \E e \in Entries(mgr[last.run].memory) :
          /\ e[2].timestamp >= 1
          /\ e[2] # last.arg
          /\ e \in Entries(JsonLoad(store[mgr[last.run].session_id].doc))

(***************************************************************************)
(* C7 - lost update: two managers loaded the same stored record and each   *)
(* appended one entry; after the later write the file holds the later      *)
(* writer's record, the earlier writer's entry is not in it, and neither   *)
(* writer was warned.                                                      *)
(***************************************************************************)
C7_LostUpdate ==
    \A r \in Runs, o \in Runs :
        (/\ r # o /\ mgr[r].alive /\ mgr[o].alive
         /\ mgr[r].session_id = mgr[o].session_id
         /\ mgr[r].loaded = mgr[o].loaded
         /\ last.op \in AppendOps /\ last.run = r /\ last.io = "ok"
         /\ Cardinality(Entries(mgr[r].memory) \ Entries(mgr[r].loaded)) = 1
         /\ Cardinality(Entries(mgr[o].memory) \ Entries(mgr[o].loaded)) = 1) =>
            LET sid == mgr[r].session_id
            IN  /\ store[sid] = JsonFile(JsonDump(mgr[r].memory))
                /\ \A e \in Entries(mgr[o].memory) \ Entries(mgr[o].loaded) :
                      e \notin Entries(JsonLoad(store[sid].doc))
                /\ ~last.warned /\ ~last.raised

\* both tabs loaded the seeded record, each appended, the second just wrote
C7_Witness ==
    /\ mgr["tab1"].alive /\ mgr["tab2"].alive
    /\ mgr["tab1"].loaded = SeededMemory /\ mgr["tab2"].loaded = SeededMemory
    /\ last.op \in AppendOps /\ last.run = "tab2" /\ last.io = "ok"
    /\ Cardinality(Entries(mgr["tab1"].memory)) = 5
    /\ Cardinality(Entries(mgr["tab2"].memory)) = 5

(***************************************************************************)
(* C8 - loading a session that has no stored file gives the empty record:  *)
(* no queries, insights or conclusions, no selected model, and a creation  *)
(* timestamp read from the clock.                                          *)
(***************************************************************************)
C8_EmptyRecord ==
    \A r \in Runs :
        (/\ mgr[r].alive /\ last.op = "MemoryManager" /\ last.run = r
         /\ store[mgr[r].session_id].kind = "absent") =>
            LET m == mgr[r].memory
            IN  /\ m.queries = << >> /\ m.insights = << >> /\ m.conclusions = << >>
                /\ m.selected_model = None
                /\ m.created_at = now - 1
                /\ DOMAIN m = { "queries", "insights", "conclusions",
                                "created_at", "selected_model" }

\* a manager constructed for a session without a file
C8_Witness ==
    \E r \in Runs :
        /\ mgr[r].alive /\ last.op = "MemoryManager" /\ last.run = r
        /\ store[mgr[r].session_id].kind = "absent"

(***************************************************************************)
(* C9 - get_context_summary reports the number of queries and lists the    *)
(* last min(3, m) of the m insights in their recorded order (no insight    *)
(* section when m = 0), and changes neither the record nor the store.      *)
(***************************************************************************)
C9_Step ==
    last'.op = "get_context_summary" =>
        LET mem == mgr[last'.run].memory
            m == Len(mem.insights)
            k == IF m < 3 THEN m ELSE 3
            s == last'.ret
        IN  /\ s[1] = [line |-> "count", num_queries |-> Len(mem.queries)]
            /\ Len(s) = IF m = 0 THEN 1 ELSE 2 + k
            /\ \A i \in 1..k :
                  /\ s[2 + i].line = "insight"
                  /\ s[2 + i].text = mem.insights[m - k + i].insight
                  /\ s[2 + i].category = mem.insights[m - k + i].category
            /\ store' = store /\ mgr' = mgr /\ hist' = hist

\* C9 - every get_context_summary step returns the count of queries and
\* the last min(3, m) insights and leaves the record unchanged
C9_ContextSummary == [][C9_Step]_vars

\* a summary of a record with more than three insights
C9_Witness ==
    /\ last.op = "get_context_summary"
    /\ Len(mgr[last.run].memory.insights) > 3
    /\ Len(last.ret) = 5


(***************************************************************************)
(* C2, C10: the analyzer.                                                  *)
(***************************************************************************)
\* the analysis operations of DataAnalyzer
AnalysisOps ==
    { "compute_correlation_analysis", "detect_anomalies", "analyze_distribution",
      "temporal_analysis", "perform_pca_analysis", "analyze_missing_data_patterns" }

\* the numeric columns of a dataframe
NumericOf(df) == { c \in 1..Len(df.cols) : df.cols[c].kind = "num" }

\* the number of rows of df with a value in column c
Usable(df, c) == df.nrows - Cardinality(df.cols[c].miss \cap (1..df.nrows))

\* the number of rows of df with a value in every column of cs
UsableAll(df, cs) ==
    df.nrows - Cardinality((UNION { df.cols[c].miss : c \in cs }) \cap (1..df.nrows))

\* the precondition of operation op does not hold of df and the arguments
PreconditionViolated(op, arg, df) ==
    CASE op = "compute_correlation_analysis" ->
           Cardinality(NumericOf(df)) < 2 \/ UsableAll(df, NumericOf(df)) < 10
      [] op = "detect_anomalies" ->
           \/ arg[1] \notin NumericOf(df)
           \/ Usable(df, arg[1]) < 10
           \/ arg[2] \notin { "iqr", "zscore", "isolation_forest" }
      [] op = "analyze_distribution" ->
           arg[1] \notin NumericOf(df) \/ Usable(df, arg[1]) < 10
      [] op = "temporal_analysis" ->
           \/ arg[1] \notin 1..Len(df.cols)
           \/ arg[2] \notin NumericOf(df)
           \/ (IF df.cols[arg[1]].kind = "num" \/ df.cols[arg[1]].dates
               THEN Usable(df, arg[1]) ELSE 0) < 10
      [] op = "perform_pca_analysis" ->
           Cardinality(NumericOf(df)) < 3 \/ UsableAll(df, NumericOf(df)) < 10
      [] op = "analyze_missing_data_patterns" -> FALSE

\* the top-level keys of the success result of operation op
SuccessKeys(op) ==
    CASE op = "compute_correlation_analysis" ->
           { "correlation_matrix", "strong_correlations", "multicollinearity",
             "correlation_summary" }
      [] op = "detect_anomalies" ->
           { "column", "total_values", "anomalies_count", "anomalies_percentage",
             "method", "threshold", "anomalies_sample", "anomaly_indices",
             "statistics" }
      [] op = "analyze_distribution" ->
           { "column", "distribution_type", "statistics", "normality_tests",
             "percentiles" }
      [] op = "temporal_analysis" ->
           { "has_trend", "data", "start", "end", "time_label", "mean_value",
             "trend_analysis", "seasonal_pattern", "data_points" }
      [] op = "perform_pca_analysis" ->
           { "explained_variance_ratio", "cumulative_variance", "n_components",
             "components", "total_variance_explained", "recommendation" }
      [] op = "analyze_missing_data_patterns" ->
           { "missing_by_column", "total_missing", "missing_percentage",
             "columns_with_missing", "complete_cases", "complete_cases_percentage",
             "missing_correlation_matrix" }

(***************************************************************************)
(* C2 - an analysis operation called with inputs that violate its          *)
(* precondition returns a result with the top-level key "error" and does   *)
(* not raise; an error result has no other key and a success result has    *)
(* the keys of its operation, "error" not among them.                      *)
(***************************************************************************)
C2_ErrorPayload ==
    last.op \in AnalysisOps =>
        /\ ~last.raised
        /\ PreconditionViolated(last.op, last.arg, analyzer.df) =>
              "error" \in DOMAIN last.ret
        /\ IF "error" \in DOMAIN last.ret
           THEN DOMAIN last.ret = { "error" }
           ELSE DOMAIN last.ret = SuccessKeys(last.op)

\* detect_anomalies on a numeric column with nine values
C2_Witness ==
    /\ last.op = "detect_anomalies"
    /\ last.arg[1] \in NumericOf(analyzer.df)
    /\ last.arg[2] = "iqr"
    /\ Usable(analyzer.df, last.arg[1]) = 9
    /\ "error" \in DOMAIN last.ret

(***************************************************************************)
(* C10 - constructing the analyzer raises a validation error, and leaves   *)
(* no metadata, when the dataset has no rows or fewer than 5 rows; a       *)
(* dataset of at least 5 rows and more than 50 columns is accepted and cut *)
(* to its first 50 columns before the metadata is extracted.               *)
(***************************************************************************)
C10_Validation ==
    last.op # "none" =>
        /\ upload.nrows < 5 =>
              /\ last.raised
              /\ last.ret \in { "empty_dataset", "insufficient_data" }
              /\ analyzer = NoAnalyzer
        /\ upload.nrows = 0 => last.ret = "empty_dataset"
        /\ (upload.nrows >= 5 /\ Len(upload.cols) > 50) =>
              /\ analyzer.built
              /\ analyzer.df.cols = SubSeq(upload.cols, 1, 50)
              /\ analyzer.df.nrows = upload.nrows
              /\ analyzer.metadata.shape = << upload.nrows, 50 >>
              /\ analyzer.metadata.columns = [c \in 1..50 |-> c]
              /\ \A c \in Elems(analyzer.metadata.numeric_cols)
                         \cup Elems(analyzer.metadata.categorical_cols) : c <= 50

\* a dataset wider than the cap with fewer than 5 rows was rejected
C10_Witness ==
    /\ last.op = "DataAnalyzer"
    /\ last.raised
    /\ upload.nrows \in 1..4
    /\ Len(upload.cols) > 50


(***************************************************************************)
(* C1 - when the text-completion call raises, or its content cannot be     *)
(* parsed as JSON, interpret_query returns the decision "summary" with     *)
(* empty parameters and a fallback reasoning, and raises nothing.          *)
(***************************************************************************)
\* the call raised or the content is not parseable
CallFailed(reply) ==
    \/ reply.kind \in { "api_error", "no_choices" }
    \/ /\ reply.kind = "content"
       /\ \/ reply.content.py = "None"
          \/ reply.content.py = "str" /\ ~reply.content.valid

\* C1 - a failed call or an unparseable content yields the summary decision
C1_FallbackToSummary ==
    (last.op = "interpret_query" /\ CallFailed(last.arg[2])) =>
        /\ ~last.raised
        /\ last.ret.py = "dict"
        /\ DOMAIN last.ret.value = { "analysis_type", "parameters", "reasoning" }
        /\ last.ret.value.analysis_type = "summary"
        /\ last.ret.value.parameters = EmptyDict
        /\ last.ret.value.reasoning \in
              { "Fallback: resposta nao-JSON", "Fallback devido a erro" }

\* the content was a string that is no JSON text
C1_Witness ==
    /\ last.op = "interpret_query"
    /\ last.arg[2].kind = "content"
    /\ last.arg[2].content.py = "str"
    /\ ~last.arg[2].content.valid
    /\ last.ret.value.analysis_type = "summary"


(***************************************************************************)
(* C11 .. C17: the pipeline of main().                                     *)
(***************************************************************************)
\* the steps of a script run
PipelineOps == { "main", "ask", "conclude" }

\* C11 - no exception leaves main(), whatever the upload, the question and
\* the failures of the service and of the session file, except a failure
\* of the initial parsing of the file.
C11_NothingEscapes ==
    (last.op \in PipelineOps /\ last.raised) => last.ret = "ParserError"

\* some operation of the handler returned an error payload
SomeCallFailed(calls) == \E i \in DOMAIN calls : calls[i].failed

\* the kinds of the save_* calls of a handler
SaveKinds(saves) == { saves[i].kind : i \in DOMAIN saves }

\* C13 - when the selected analysis operation returns an error payload the
\* error is displayed, generate_insight is not called and no query or
\* insight is appended; a query and an insight are appended only after a
\* success payload and a returned insight.
C13_ErrorPayloadNotRecorded ==
    last.op = "ask" =>
        /\ SomeCallFailed(last.ret.calls) =>
              /\ last.ret.error_shown
              /\ ~last.ret.insight_called
              /\ SaveKinds(last.ret.saves) \cap { "query", "insight" } = {}
        /\ SaveKinds(last.ret.saves) \cap { "query", "insight" } # {} =>
              /\ last.ret.result.some
              /\ "error" \notin DOMAIN last.ret.result.value
              /\ last.ret.insight_called

\* C14 - every decision interpret_query returns names an operation of the
\* fixed set of tags, whatever the service replies.
C14_KnownOperation ==
    last.op = "interpret_query" =>
        /\ last.ret.py = "dict"
        /\ "analysis_type" \in DOMAIN last.ret.value
        /\ last.ret.value.analysis_type \in AnalysisTypes

\* the column an operation call requires to be numeric: the target of
\* detect_anomalies and analyze_distribution, the value column of
\* temporal_analysis
NumericArg(call) ==
    IF call.op = "temporal_analysis" THEN call.args[2] ELSE call.args[1]

\* C15 (as stated) - the handler never calls detect_anomalies,
\* analyze_distribution or temporal_analysis with a column that is not a
\* numeric column of the metadata (for temporal_analysis the time column is
\* a known column too).
C15_ValidatedBeforeDispatch ==
    last.op = "ask" =>
        \A i \in DOMAIN last.ret.calls :
           LET call == last.ret.calls[i]
           IN  call.op \in { "detect_anomalies", "analyze_distribution",
                             "temporal_analysis" } =>
                  /\ NumericArg(call) \in Elems(analyzer.metadata.numeric_cols)
                  /\ call.op = "temporal_analysis" =>
                        call.args[1] \in Elems(analyzer.metadata.columns)

\* a call of temporal_analysis with a time column that is no column of the
\* dataset or a value column that is not numeric
InvalidTemporalCall(call) ==
    /\ call.op = "temporal_analysis"
    /\ \/ call.args[1] \notin Elems(analyzer.metadata.columns)
       \/ call.args[2] \notin Elems(analyzer.metadata.numeric_cols)

\* C15 - the handler checks the column of an anomaly request and the columns
\* of a distribution request against the numeric columns of the metadata
\* before it calls the operation: detect_anomalies and analyze_distribution
\* are never called with another column, and an anomaly request with such a
\* column gets an error result without a call.  A temporal request that
\* names both columns is passed on unchecked: temporal_analysis itself
\* returns the error result of invalid columns.
C15_ValidatedOrRejected ==
    last.op = "ask" =>
        /\ \A i \in DOMAIN last.ret.calls :
              LET call == last.ret.calls[i]
              IN  /\ call.op \in { "detect_anomalies", "analyze_distribution" } =>
                        call.args[1] \in Elems(analyzer.metadata.numeric_cols)
                  /\ InvalidTemporalCall(call) =>
                        /\ call.failed
                        /\ last.ret.result = Some([error |-> "Colunas invalidas"])
        /\ (last.ret.analysis_type = "anomaly" /\ last.ret.calls = << >>) =>
              /\ last.ret.result.some
              /\ "error" \in DOMAIN last.ret.result.value
        /\ (last.ret.analysis_type = "distribution" /\ last.ret.calls = << >>) =>
              /\ last.ret.result.some
              /\ "error" \in DOMAIN last.ret.result.value

\* temporal_analysis was called with a value column that is not numeric and
\* returned the error result
C15_Witness ==
    /\ last.op = "ask"
    /\ \E i \in DOMAIN last.ret.calls : InvalidTemporalCall(last.ret.calls[i])
    /\ last.ret.error_shown

\* the prefixes of the fallback texts of the two generators
InsightFallbackPrefix == "Analise concluida. Resultados: "

ConclusionFallbackPrefix == "Erro ao gerar conclusoes: "

\* text starts with prefix
StartsWith(text, prefix) ==
    Len(text) >= Len(prefix) /\ SubSeq(text, 1, Len(prefix)) = prefix

\* the generation call of the handler failed
GenerationFailed == last.arg.treply.kind \in { "api_error", "no_choices" }

\* C16 - when the text-completion call fails, generate_insight returns the
\* fallback built from at most 300 characters of the analysis result and
\* generate_conclusions returns its fallback text; nothing is raised to
\* the handler.
C16_GeneratorsFallBack ==
    /\ (last.op = "ask" /\ last.ret.insight_called /\ GenerationFailed) =>
          /\ last.ret.caught = None
          /\ StartsWith(last.ret.text, InsightFallbackPrefix)
          /\ last.ret.text = InsightFallbackPrefix
                \o Truncate(StrOf(last.ret.result.value), 300)
          /\ Len(last.ret.text) <= Len(InsightFallbackPrefix) + 300
    /\ (last.op \in { "ask", "conclude" } /\ last.ret.analysis_type = "conclusion"
        /\ GenerationFailed) =>
          /\ last.ret.caught = None
          /\ StartsWith(last.ret.text, ConclusionFallbackPrefix)

\* the fallback insight of a result whose text is longer than 300 characters
C16_Witness ==
    /\ last.op = "ask"
    /\ last.ret.insight_called
    /\ GenerationFailed
    /\ Len(StrOf(last.ret.result.value)) > 300
    /\ Len(last.ret.text) = Len(InsightFallbackPrefix) + 300

\* a reply without content
EmptyTexts == { None, "" }

\* C17 - an empty reply is a recoverable failure in all three calls: the
\* resolver falls back to summary, and no empty reply is recorded as an
\* insight, an answer or a conclusion; nothing is raised.
C17_EmptyReplyRecovered ==
    /\ (last.op = "ask" /\ last.arg.reply.kind = "content"
        /\ \/ last.arg.reply.content.py = "None"
           \/ last.arg.reply.content = NotJson("empty")) =>
          /\ last.ret.caught = None
          /\ last.ret.analysis_type = "summary"
    /\ (last.op \in { "ask", "conclude" } /\ last.arg.treply.kind = "content"
        /\ last.arg.treply.content \in EmptyTexts) =>
          /\ last.ret.caught = None
          /\ \A i \in DOMAIN last.ret.saves :
                LET save == last.ret.saves[i]
                IN  CASE save.kind = "query" -> save.answer \notin EmptyTexts
                      [] save.kind = "insight" -> save.insight \notin EmptyTexts
                      [] save.kind = "conclusion" -> save.text \notin EmptyTexts

(***************************************************************************)
(* C12 - no analysis operation changes the dataset of the analyzer: after  *)
(* any sequence of operations its rows, columns, cell values and row order *)
(* are those the constructor kept (temporal_analysis works on a copy).     *)
(***************************************************************************)
C12_DatasetReadOnly ==
    analyzer.built =>
        /\ analyzer.df = ValidateDataframe(upload).value
        /\ analyzer.metadata = ExtractMetadata(analyzer.df)

\* temporal_analysis returned a frame with added columns, a converted time
\* column and the rows in another order than the dataset's
C12_Witness ==
    /\ last.op = "temporal_analysis"
    /\ "data" \in DOMAIN last.ret
    /\ MOVING_AVG \in Elems(last.ret.data.names)
    /\ last.ret.data.cols[1].kind = "datetime64"
    /\ last.ret.data.index # analyzer.df.index
    /\ Len(last.ret.data.index) < analyzer.df.nrows

\* the position of a numeric column in the correlation matrix
MatrixPosition(v) == PositionOf(analyzer.metadata.numeric_cols, v)

\* the coefficient of the correlation matrix for the columns of an entry
MatrixValue(e) == CorrOf(analyzer.df, MatrixPosition(e.var1), MatrixPosition(e.var2))

\* the pairs of columns of the matrix with |r| > 0.5
StrongPairsOfMatrix ==
    { pair \in Elems(Pairs(Len(analyzer.metadata.numeric_cols))) :
         Abs(CorrOf(analyzer.df, pair[1], pair[2])) > 500 }

(***************************************************************************)
(* C18 (as stated) - every list of a success result is cut to a fixed cap: *)
(* at most 10 sampled anomalies, 20 anomaly indices, 15 strong pairs, and  *)
(* no field holds the rows of a column (more entries than the largest cap).*)
(***************************************************************************)
C18_BoundedPayload ==
    (last.op \in AnalysisOps /\ ~last.raised /\ "error" \notin DOMAIN last.ret) =>
        /\ last.op = "detect_anomalies" =>
              /\ Len(last.ret.anomalies_sample) <= 10
              /\ Len(last.ret.anomaly_indices) <= 20
        /\ last.op = "compute_correlation_analysis" =>
              Len(last.ret.strong_correlations) <= 15
        /\ last.op = "temporal_analysis" => Len(last.ret.data.index) <= 20

\* C18 - the success result of detect_anomalies holds at most 10 sampled
\* values and at most 20 indices, the first of the anomalies, and the one
\* of compute_correlation_analysis at most 15 strong pairs, whatever the
\* number of rows; the field data of the success result of
\* temporal_analysis holds one row for every row of the dataset with a
\* valid time, so it grows with the number of rows.
C18_BoundedButTemporalData ==
    (last.op \in AnalysisOps /\ ~last.raised /\ "error" \notin DOMAIN last.ret) =>
        /\ last.op = "detect_anomalies" =>
              /\ Len(last.ret.anomalies_sample) <= 10
              /\ Len(last.ret.anomaly_indices) <= 20
              /\ Len(last.ret.anomalies_sample) =
                    (IF last.ret.anomalies_count < 10
                     THEN last.ret.anomalies_count ELSE 10)
              /\ Len(last.ret.anomaly_indices) =
                    (IF last.ret.anomalies_count < 20
                     THEN last.ret.anomalies_count ELSE 20)
              /\ last.ret.anomalies_count <= last.ret.total_values
        /\ last.op = "compute_correlation_analysis" =>
              /\ Len(last.ret.strong_correlations) <= 15
              /\ Len(last.ret.multicollinearity.high_correlation_pairs)
                    <= last.ret.correlation_summary.total_pairs
        /\ last.op = "temporal_analysis" =>
              /\ Elems(last.ret.data.index) =
                    { i \in 1..analyzer.df.nrows :
                        i \notin analyzer.df.cols[last.arg[1]].miss }
              /\ Len(last.ret.data.index) = last.ret.data_points

\* 22 anomalies were found: 10 are sampled and 20 indices are listed
C18_Witness ==
    /\ last.op = "detect_anomalies"
    /\ "anomalies_count" \in DOMAIN last.ret
    /\ last.ret.anomalies_count = 22
    /\ Len(last.ret.anomalies_sample) = 10
    /\ Len(last.ret.anomaly_indices) = 20

(***************************************************************************)
(* C19 - on a dataset with at least 2 numeric columns and at least 10      *)
(* complete rows the strong-pair list of compute_correlation_analysis      *)
(* holds only pairs with |r| > 0.5, each pair of columns at most once, by  *)
(* falling |r|, at most 15 of them (the strongest), each labelled "forte"  *)
(* exactly when |r| > 0.7 and "moderada" otherwise.                        *)
(***************************************************************************)
C19_StrongPairs ==
    (/\ last.op = "compute_correlation_analysis"
     /\ ~last.raised
     /\ last.ret # [error |-> "Erro na analise de correlacao"]) =>
        IF PreconditionViolated(last.op, last.arg, analyzer.df)
        THEN "error" \in DOMAIN last.ret
        ELSE LET list == last.ret.strong_correlations
             IN  /\ \A k \in DOMAIN list :
                       /\ list[k].var1 \in Elems(analyzer.metadata.numeric_cols)
                       /\ list[k].var2 \in Elems(analyzer.metadata.numeric_cols)
                       /\ list[k].var1 # list[k].var2
                       /\ list[k].correlation = MatrixValue(list[k])
                       /\ Abs(list[k].correlation) > 500
                       /\ list[k].strength \in { "forte", "moderada" }
                       /\ list[k].strength = "forte" <=>
                              Abs(list[k].correlation) > 700
                 /\ \A k, m \in DOMAIN list :
                       k < m =>
                          /\ { list[k].var1, list[k].var2 } #
                                { list[m].var1, list[m].var2 }
                          /\ Abs(list[k].correlation) >= Abs(list[m].correlation)
                 /\ Len(list) <= 15
                 /\ Len(list) = (IF Cardinality(StrongPairsOfMatrix) < 15
                                 THEN Cardinality(StrongPairsOfMatrix) ELSE 15)
                 /\ last.ret.correlation_summary.strong_pairs =
                       Cardinality(StrongPairsOfMatrix)

\* 28 strong pairs of both strengths were found and 15 are listed
C19_Witness ==
    /\ last.op = "compute_correlation_analysis"
    /\ "strong_correlations" \in DOMAIN last.ret
    /\ last.ret.correlation_summary.strong_pairs > 15
    /\ Len(last.ret.strong_correlations) = 15
    /\ \E k, m \in DOMAIN last.ret.strong_correlations :
          /\ last.ret.strong_correlations[k].strength = "forte"
          /\ last.ret.strong_correlations[m].strength = "moderada"

\* the dataset is one column of a cluster with an extreme value
ClusterWithExtreme == upload \in OutlierDatasets /\ analyzer.built

\* the row of the extreme value
ExtremeRow == CHOOSE i \in 1..upload.nrows : Abs(upload.cols[1].vals[i]) > 5

\* detect_anomalies(column 1, "iqr") returned and no library call raised
IqrReturned ==
    /\ last.op = "detect_anomalies"
    /\ last.arg = << 1, "iqr" >>
    /\ ~last.raised
    /\ last.ret # [error |-> "Erro na deteccao de anomalias"]

(***************************************************************************)
(* C20 (as stated) - on a column of a cluster of values and one extreme    *)
(* value, of six values or more, detect_anomalies with method "iqr"        *)
(* returns a success result that flags the extreme value and no other.     *)
(***************************************************************************)
C20_IqrFlagsExtreme ==
    (ClusterWithExtreme /\ IqrReturned) =>
        /\ "error" \notin DOMAIN last.ret
        /\ last.ret.anomaly_indices = << ExtremeRow >>

\* C20 - on a column of a cluster of values and one extreme value
\* detect_anomalies with method "iqr" returns, when the column has at least
\* 10 values, a success result that flags the extreme value and no other;
\* with fewer than 10 values (as the six values 1, 2, 3, 4, 5, 1000) it
\* returns the error result of insufficient data.
C20_IqrFlagsExtremeOfTen ==
    (ClusterWithExtreme /\ IqrReturned) =>
        IF upload.nrows >= 10
        THEN /\ "error" \notin DOMAIN last.ret
             /\ last.ret.anomalies_count = 1
             /\ last.ret.anomaly_indices = << ExtremeRow >>
             /\ last.ret.anomalies_sample = << upload.cols[1].vals[ExtremeRow] >>
        ELSE last.ret = [error |-> "Dados insuficientes para deteccao de anomalias"]

\* the extreme value -1000 in a cluster of ten values 1..5 was flagged
C20_Witness ==
    /\ ClusterWithExtreme
    /\ IqrReturned
    /\ upload.nrows = 10
    /\ "anomalies_sample" \in DOMAIN last.ret
    /\ last.ret.anomalies_sample = << 0 - 1000 >>
    /\ \E i \in 1..10 : upload.cols[1].vals[i] = 5


(***************************************************************************)
(* Statistics helpers of DataAnalyzer: the two pure functions that turn    *)
(* computed statistics into a label.  A Python float is a record: either   *)
(* not-a-number or a value in tenths.  Every comparison with not-a-number  *)
(* is false, as in IEEE 754 and Python.                                    *)
(***************************************************************************)

\* the literal 0.5 of _classify_distribution, in tenths
HALF == 5

Float(v) == [nan |-> FALSE, v |-> v]

NaN == [nan |-> TRUE, v |-> 0]

\* a > b and a < b for a float a and a literal b
Gt(a, b) == ~a.nan /\ a.v > b

Lt(a, b) == ~a.nan /\ a.v < b

\* abs(a) < b
AbsLt(a, b) == ~a.nan /\ Abs(a.v) < b

\* the statistics scipy can hand over: values between -1.0 and 1.0 in
\* tenths, and not-a-number (skew and kurtosis of a constant sample)
MaxStat == 10

Statistics == { Float(v) : v \in -MaxStat..MaxStat } \cup { NaN }

classify_distribution_KurtosisFirst(skewness, kurtosis) ==
    IF AbsLt(skewness, HALF) /\ AbsLt(kurtosis, HALF) THEN "normal"
    ELSE IF Gt(kurtosis, HALF) THEN "leptocurtica (picos altos)"
    ELSE IF Lt(kurtosis, -HALF) THEN "platicurtica (picos baixos)"
    ELSE IF Gt(skewness, HALF) THEN "positivamente assimetrica"
    ELSE IF Lt(skewness, -HALF) THEN "negativamente assimetrica"
    ELSE "distribuicao mista"

classify_distribution_MixedInside(skewness, kurtosis) ==
    IF AbsLt(skewness, HALF - 1) /\ AbsLt(kurtosis, HALF - 1) THEN "normal"
    ELSE IF Gt(skewness, HALF) THEN "positivamente assimetrica"
    ELSE IF Lt(skewness, -HALF) THEN "negativamente assimetrica"
    ELSE IF Gt(kurtosis, HALF) THEN "leptocurtica (picos altos)"
    ELSE IF Lt(kurtosis, -HALF) THEN "platicurtica (picos baixos)"
    ELSE "distribuicao mista"

\* DataAnalyzer._classify_distribution
classify_distribution(skewness, kurtosis) ==
    IF AbsLt(skewness, HALF) /\ AbsLt(kurtosis, HALF) THEN "normal"
    ELSE IF Gt(skewness, HALF) THEN "positivamente assimetrica"
    ELSE IF Lt(skewness, -HALF) THEN "negativamente assimetrica"
    ELSE IF Gt(kurtosis, HALF) THEN "leptocurtica (picos altos)"
    ELSE IF Lt(kurtosis, -HALF) THEN "platicurtica (picos baixos)"
    ELSE "distribuicao mista"


\* PCA_COMPONENTS = 0.95 and the literals 0.8 and 0.7 of _pca_recommendation,
\* in percent
PCA_COMPONENTS == 95

SINGLE_DOMINANCE == 80

TWO_DOMINANCE == 70

\* explained-variance shares are multiples of five percent
Shares == { 5 * k : k \in 0..20 }

MaxComponents == 4

Min(a, b) == IF a < b THEN a ELSE b

\* the spectra of n components: non-increasing shares that add up to total
RECURSIVE Spectra(_, _, _)
Spectra(n, total, most) ==
    IF n = 0
    THEN IF total = 0 THEN { << >> } ELSE { }
    ELSE UNION { { << x >> \o t : t \in Spectra(n - 1, total - x, x) } :
                 x \in { share \in Shares : share <= Min(total, most) } }

\* what PCA can find in 3..MaxComponents standardised numeric columns
ExplainedVariances == UNION { Spectra(n, 100, 100) : n \in 3..MaxComponents }

\* np.cumsum
RECURSIVE CumSum(_)
CumSum(s) ==
    IF s = << >> THEN << >>
    ELSE LET init == CumSum(SubSeq(s, 1, Len(s) - 1))
         IN  Append(init, SumSeq(s))

\* PCA(n_components=PCA_COMPONENTS).fit: the shortest prefix of the spectrum
\* whose cumulative share exceeds the requested fraction
Retained(spectrum) ==
    LET cum == CumSum(spectrum)
        enough == { n \in 1..Len(spectrum) : cum[n] > PCA_COMPONENTS }
    IN  SubSeq(spectrum, 1, CHOOSE n \in enough : \A m \in enough : n <= m)

pca_recommendation_DominanceFirst(explained_variance) ==
    IF explained_variance[1] > SINGLE_DOMINANCE
    THEN "Primeira componente explica mais de 80% da variancia"
    ELSE IF Len(explained_variance) <= 2
    THEN "Dataset tem poucas dimensoes para reducao significativa"
    ELSE IF SumSeq(FirstN(explained_variance, 2)) > TWO_DOMINANCE
    THEN "Duas componentes principais explicam mais de 70% da variancia"
    ELSE "Dataset tem estrutura multidimensional complexa"

\* DataAnalyzer._pca_recommendation
pca_recommendation(explained_variance) ==
    IF Len(explained_variance) <= 2
    THEN "Dataset tem poucas dimensoes para reducao significativa"
    ELSE IF explained_variance[1] > SINGLE_DOMINANCE
    THEN "Primeira componente explica mais de 80% da variancia"
    ELSE IF SumSeq(FirstN(explained_variance, 2)) > TWO_DOMINANCE
    THEN "Duas componentes principais explicam mais de 70% da variancia"
    ELSE "Dataset tem estrutura multidimensional complexa"

\* the result dictionary of perform_pca_analysis for a fitted spectrum
PcaResult(spectrum) ==
    LET ratio == Retained(spectrum)
    IN  [ explained_variance_ratio |-> ratio,
          cumulative_variance |-> CumSum(ratio),
          n_components |-> Len(ratio),
          components |-> Computed,
          total_variance_explained |-> SumSeq(ratio),
          recommendation |-> pca_recommendation(ratio) ]

\* distribution_type = self._classify_distribution(skewness, kurtosis)
ClassifyDistribution(skewness, kurtosis) ==
    /\ last' = [NoOp EXCEPT
                  !.op = "_classify_distribution",
                  !.arg = << skewness, kurtosis >>,
                  !.ret = classify_distribution(skewness, kurtosis)]
    /\ UNCHANGED << upload, analyzer, memoryVars, agent >>

\* pca.fit_transform(data_scaled) and the returned dictionary
PcaFit(spectrum) ==
    /\ last' = [NoOp EXCEPT
                  !.op = "perform_pca_analysis",
                  !.arg = spectrum,
                  !.ret = PcaResult(spectrum)]
    /\ UNCHANGED << upload, analyzer, memoryVars, agent >>

StatisticsInit ==
    /\ store = [k \in SessionIds |-> Absent]
    /\ mgr = [r \in Runs |-> NoManager]
    /\ now = 1
    /\ faults = 0
    /\ hist = [k \in SessionIds |-> HistOf(store[k])]
    /\ upload = NoUpload
    /\ agent = NoAgent
    /\ analyzer = NoAnalyzer
    /\ last = NoOp

StatisticsNext ==
    \/ \E skewness \in Statistics, kurtosis \in Statistics :
           ClassifyDistribution(skewness, kurtosis)
    \/ \E spectrum \in ExplainedVariances : PcaFit(spectrum)

\* the labels DataAnalyzer derives from computed statistics
SpecStatistics == StatisticsInit /\ [][StatisticsNext]_vars

(***************************************************************************)
(* C21 .. C30                                                              *)
(***************************************************************************)

Classified == last.op = "_classify_distribution"

Skewness == last.arg[1]

Kurtosis == last.arg[2]

\* both statistics strictly inside the band (-0.5, 0.5)
InsideBand == AbsLt(Skewness, HALF) /\ AbsLt(Kurtosis, HALF)

\* C21 - the label of _classify_distribution follows the +-0.5 thresholds in
\* priority order: normal when both statistics are strictly inside the band;
\* otherwise positively skewed when skewness > 0.5 whatever the kurtosis;
\* otherwise negatively skewed when skewness < -0.5; otherwise leptokurtic
\* when kurtosis > 0.5; otherwise platykurtic when kurtosis < -0.5;
\* otherwise mixed.
C21_ClassificationPriority ==
    Classified =>
        /\ (last.ret = "normal") = InsideBand
        /\ (last.ret = "positivamente assimetrica") = Gt(Skewness, HALF)
        /\ (last.ret = "negativamente assimetrica") = Lt(Skewness, -HALF)
        /\ (last.ret = "leptocurtica (picos altos)") =
               (/\ ~Gt(Skewness, HALF) /\ ~Lt(Skewness, -HALF)
                /\ Gt(Kurtosis, HALF))
        /\ (last.ret = "platicurtica (picos baixos)") =
               (/\ ~Gt(Skewness, HALF) /\ ~Lt(Skewness, -HALF)
                /\ Lt(Kurtosis, -HALF))
        /\ (last.ret = "distribuicao mista") =
               (/\ ~InsideBand
                /\ ~Gt(Skewness, HALF) /\ ~Lt(Skewness, -HALF)
                /\ ~Gt(Kurtosis, HALF) /\ ~Lt(Kurtosis, -HALF))

\* a strongly skewed and strongly peaked sample is labelled by its skewness
C21_Witness ==
    /\ Classified
    /\ Gt(Skewness, HALF) /\ Gt(Kurtosis, HALF)
    /\ last.ret = "positivamente assimetrica"


\* temporal_analysis was called with a numeric time column and another
\* numeric column as the value, and no exception was caught
NumericTimeCall ==
    /\ last.op = "temporal_analysis"
    /\ last.arg[1] \in NumericOf(upload)
    /\ last.arg[2] \in NumericOf(upload)
    /\ last.arg[1] # last.arg[2]
    /\ last.ret # [error |-> "Erro na analise temporal"]

\* the returned result reads the time column as seconds elapsed since the
\* first reading
ElapsedSeconds ==
    LET df == upload
        time_col == last.arg[1]
        value_col == last.arg[2]
        rows == Present(df, time_col)
        Seconds(i) == ValueAt(df.cols[time_col], df.nrows, i)
        least == MinOf({ Seconds(i) : i \in rows })
        greatest == MaxOf({ Seconds(i) : i \in rows })
        data == last.ret.data
        Axis(k) == data.cols[PositionOf(data.names, TIME_ELAPSED)].vals[data.index[k]]
        points == Len(data.index)
    IN  /\ "error" \notin DOMAIN last.ret
        /\ Elems(data.index) = rows
        /\ points = Cardinality(rows)
        /\ \A k \in 1..points : Axis(k) = Seconds(data.index[k]) - least
        /\ \A k \in 1..(points - 1) : Axis(k) <= Axis(k + 1)
        /\ Axis(1) = 0
        /\ last.ret.start = 0
        /\ last.ret.end = greatest - least
        /\ last.ret.time_label = "Seconds since first transaction"
        /\ last.ret.trend_analysis.trend_direction =
              TrendDirection([k \in 1..points |-> Axis(k)],
                             [k \in 1..points |->
                                 ValueAt(df.cols[value_col], df.nrows, data.index[k])],
                             \E i \in rows : i \in df.cols[value_col].miss)
        /\ data.cols[PositionOf(data.names, time_col)] = df.cols[time_col]
        /\ \A c \in DOMAIN data.cols : data.cols[c].kind # "datetime64"
        /\ MONTH \notin Elems(data.names)
        /\ last.ret.seasonal_pattern = None

PcaReturned ==
    /\ last.op = "perform_pca_analysis"
    /\ ~last.raised
    /\ "explained_variance_ratio" \in DOMAIN last.ret

\* C23 - the PCA recommendation follows from the explained-variance ratios
\* of the retained components: single-component dominance when the first
\* ratio exceeds 80%, else two-component dominance when the first two sum to
\* more than 70%, else complex; so every result whose first component
\* explains more than 80% gets the single-component recommendation.
C23_PcaRecommendation ==
    PcaReturned =>
        LET ratio == last.ret.explained_variance_ratio
        IN  last.ret.recommendation =
              IF ratio[1] > SINGLE_DOMINANCE
              THEN "Primeira componente explica mais de 80% da variancia"
              ELSE IF SumSeq(FirstN(ratio, 2)) > TWO_DOMINANCE
              THEN "Duas componentes principais explicam mais de 70% da variancia"
              ELSE "Dataset tem estrutura multidimensional complexa"


(***************************************************************************)
(* A session that starts with no stored record: the script runs of one     *)
(* browser tab on one upload, with the sidebar's model selection and with  *)
(* every outcome of the writes of the session file.                        *)
(***************************************************************************)
SessionInit ==
    /\ store = [k \in SessionIds |-> Absent]
    /\ mgr = [r \in Runs |-> NoManager]
    /\ now = 1
    /\ faults = 0
    /\ hist = [k \in SessionIds |-> HistOf(store[k])]
    /\ upload = DataFrame(10, << Cat({}, TRUE), Num({}), Num({1}), Cat({}, FALSE) >>)
    /\ agent = NoAgent
    /\ analyzer = NoAnalyzer
    /\ last = NoOp

\* the "Salvar modelo selecionado" button of the run
SelectModel(r, model_name, io) ==
    /\ last.op = "main"
    /\ analyzer.built
    /\ SaveSelectedModel(r, model_name, io)

SessionNext ==
    \/ \E f \in Files, rd \in ReadOutcomes : StartRun("tab1", f, rd)
    \/ \E q \in Questions, reply \in PipelineReplies, treply \in TextReplies,
          lib \in LibOutcomes, io1 \in WriteOutcomes, io2 \in WriteOutcomes :
          AskQuestion("tab1", q, reply, treply, lib, << io1, io2 >>)
    \/ \E treply \in TextReplies, io \in WriteOutcomes :
          GenerateConclusions("tab1", treply, io)
    \/ \E model_name \in ModelNames, io \in WriteOutcomes :
          SelectModel("tab1", model_name, io)

SpecSession == SessionInit /\ [][SessionNext]_vars

\* C24 - in a session that starts from an empty record and has a single
\* writer, after any sequence of questions, conclusion generations and
\* model selections the in-memory record holds as many queries as insights.
C24_QueriesMatchInsights ==
    \A r \in Runs :
        mgr[r].alive =>
            Len(mgr[r].memory.queries) = Len(mgr[r].memory.insights)


\* the decision the resolver returns for the question of a handler
DecisionOf(r, arg) ==
    interpret_query(arg.question, analyzer.metadata,
                    ContextSummary(mgr[r].memory), arg.reply).value

\* the decision is a dictionary whose analysis_type is none of the tags the
\* handler dispatches on
UndispatchedType(decision) ==
    /\ decision.py = "dict"
    /\ Get(decision.value, "analysis_type", "summary") \notin AnalysisTypes

\* C25 - when the decision carries an analysis_type that matches none of
\* the dispatched tags, the question handler runs no analysis operation,
\* reports no error, calls no insight generation and leaves the session
\* memory unchanged, in memory and in the store.
C25_UndispatchedTypeDoesNothing ==
    [][ \A r \in Runs :
          (last'.op = "ask" /\ last'.run = r /\ last.op = "main"
              /\ UndispatchedType(DecisionOf(r, last'.arg))) =>
             /\ last'.ret.calls = << >>
             /\ ~last'.ret.result.some
             /\ ~last'.ret.error_shown
             /\ last'.ret.caught = None
             /\ ~last'.raised
             /\ ~last'.warned
             /\ ~last'.ret.insight_called
             /\ last'.ret.saves = << >>
             /\ mgr' = mgr
             /\ store' = store
             /\ hist' = hist
             /\ analyzer' = analyzer ]_vars

\* the question of a run with a stored record was resolved to "clustering"
C25_Witness ==
    /\ last.op = "ask"
    /\ last.ret.analysis_type = "clustering"
    /\ last.ret.calls = << >>
    /\ mgr[last.run].memory = SeededMemory
    /\ store[mgr[last.run].session_id] = JsonFile(JsonDump(SeededMemory))


\* the texts a later request to the service carries: the insight lines of
\* the context summary and the insights of the conclusions prompt
SummaryTexts(memory) ==
    { ContextSummary(memory)[i].text :
        i \in { k \in DOMAIN ContextSummary(memory) :
                   ContextSummary(memory)[k].line = "insight" } }

PromptTexts(memory) ==
    Elems(ConclusionPrompt(memory, analyzer.metadata).insights_text)

\* the last entry of a list
Last(s) == s[Len(s)]

\* the handler's generate_insight call failed: the fallback string is the
\* answer of the appended query and the appended insight, and later
\* requests carry it
FailedInsightRecorded ==
    (last.op = "ask" /\ last.ret.insight_called /\ GenerationFailed) =>
        LET memory == mgr[last.run].memory
        IN  /\ StartsWith(last.ret.text, InsightFallbackPrefix)
            /\ Len(last.ret.saves) = 2
            /\ Len(memory.queries) = Len(mgr[last.run].loaded.queries) + 1
            /\ Len(memory.insights) = Len(mgr[last.run].loaded.insights) + 1
            /\ Last(memory.queries).answer = last.ret.text
            /\ Last(memory.insights).insight = last.ret.text
            /\ last.ret.text \in SummaryTexts(memory)
            /\ last.ret.text \in PromptTexts(memory)
            /\ last.arg.ios = << "ok", "ok" >> =>
                  store[mgr[last.run].session_id] = JsonFile(JsonDump(memory))

\* the handler's generate_conclusions call failed: its error string is the
\* appended conclusion
FailedConclusionRecorded ==
    (last.op \in { "ask", "conclude" } /\ last.ret.analysis_type = "conclusion"
     /\ GenerationFailed) =>
        LET memory == mgr[last.run].memory
        IN  /\ StartsWith(last.ret.text, ConclusionFallbackPrefix)
            /\ Len(memory.conclusions) = Len(mgr[last.run].loaded.conclusions) + 1
            /\ Last(memory.conclusions).text = last.ret.text
            /\ Len(memory.queries) = Len(mgr[last.run].loaded.queries)
            /\ Len(memory.insights) = Len(mgr[last.run].loaded.insights)

(***************************************************************************)
(* C26 (as stated) - a failed text-completion call is recorded as if it    *)
(* had succeeded: the fallback of generate_insight is appended as the      *)
(* query's answer and as an insight, the error string of                   *)
(* generate_conclusions is appended as a conclusion, and these entries     *)
(* appear in later context summaries and conclusion prompts.               *)
(***************************************************************************)
C26_FailuresRecordedAndFedBack ==
    /\ FailedInsightRecorded
    /\ FailedConclusionRecorded
    /\ (last.op \in { "ask", "conclude" } /\ last.ret.analysis_type = "conclusion"
        /\ GenerationFailed) =>
          /\ last.ret.text \in SummaryTexts(mgr[last.run].memory)
          /\ last.ret.text \in PromptTexts(mgr[last.run].memory)

\* C26 (amended) - a failed text-completion call is recorded as if it had
\* succeeded: the fallback of generate_insight is appended as the query's
\* answer and as an insight, and this insight appears in later context
\* summaries and conclusion prompts; the error string of
\* generate_conclusions is appended as a conclusion, which no later request
\* carries.
C26_FailuresRecorded ==
    /\ FailedInsightRecorded
    /\ FailedConclusionRecorded
    /\ (last.op \in { "ask", "conclude" } /\ last.ret.analysis_type = "conclusion"
        /\ GenerationFailed) =>
          /\ last.ret.text \notin SummaryTexts(mgr[last.run].memory)
          /\ last.ret.text \notin PromptTexts(mgr[last.run].memory)

\* the conclusions button of a run over a stored record, with a failed call:
\* the error string is the one conclusion of the record and of the file
C26_Witness ==
    /\ last.op = "conclude"
    /\ GenerationFailed
    /\ mgr[last.run].loaded = SeededMemory
    /\ mgr[last.run].memory.conclusions =
          << ConclusionEntry(now - 1, "Erro ao gerar conclusoes: APIError") >>
    /\ store[mgr[last.run].session_id] = JsonFile(JsonDump(mgr[last.run].memory))


\* the manager of run r was just constructed over a stored record that
\* could not be read or parsed
UnreadableLoad(r) ==
    /\ last.op = "MemoryManager"
    /\ last.run = r
    /\ mgr[r].alive
    /\ store[mgr[r].session_id].kind # "absent"
    /\ (last.io # "ok" \/ store[mgr[r].session_id].kind # "json")

\* the operations that mutate the record
Mutations ==
    { "save_query", "save_insight", "save_conclusion", "save_selected_model" }

\* the entries of a record
EntriesOf(memory) ==
    Elems(memory.queries) \cup Elems(memory.insights) \cup Elems(memory.conclusions)

\* C27 - when the stored record of a session exists but cannot be read or
\* parsed, MemoryManager starts from a fresh empty record and reports
\* nothing, and its next mutation (when its write succeeds) overwrites the
\* stored record with that record, so every query, insight and conclusion
\* stored before is lost.
C27_UnreadableRecordLost ==
    /\ [](\A r \in Runs :
            UnreadableLoad(r) =>
               /\ mgr[r].memory.queries = << >>
               /\ mgr[r].memory.insights = << >>
               /\ mgr[r].memory.conclusions = << >>
               /\ mgr[r].memory.selected_model = None
               /\ mgr[r].memory.created_at = now - 1
               /\ ~last.warned
               /\ ~last.raised)
    /\ [][ \A r \in Runs :
             (UnreadableLoad(r) /\ last'.run = r /\ last'.op \in Mutations
                 /\ last'.io = "ok") =>
                LET sid == mgr[r].session_id
                IN  /\ store'[sid] = JsonFile(JsonDump(mgr'[r].memory))
                    /\ EntriesOf(mgr'[r].memory) \subseteq { last'.arg }
                    /\ store[sid].kind = "json" =>
                          EntriesOf(JsonLoad(store[sid].doc))
                              \cap EntriesOf(JsonLoad(store'[sid].doc)) = {} ]_vars

\* the file of a session with one stored query and three stored insights
\* could not be opened; the next save_conclusion left a file with the
\* conclusion alone
C27_Witness ==
    /\ last.op = "save_conclusion"
    /\ last.io = "ok"
    /\ hist[mgr[last.run].session_id].failed
    /\ Len(hist[mgr[last.run].session_id].insights) = 3
    /\ store[mgr[last.run].session_id].kind = "json"
    /\ JsonLoad(store[mgr[last.run].session_id].doc).insights = << >>
    /\ JsonLoad(store[mgr[last.run].session_id].doc).queries = << >>
    /\ Len(JsonLoad(store[mgr[last.run].session_id].doc).conclusions) = 1


\* a statistic is a number of absolute value at most 0.5, and exactly 0.5
InBand(a) == ~a.nan /\ Abs(a.v) <= HALF

OnEdge(a) == ~a.nan /\ Abs(a.v) = HALF

Labels ==
    { "normal", "positivamente assimetrica", "negativamente assimetrica",
      "leptocurtica (picos altos)", "platicurtica (picos baixos)",
      "distribuicao mista" }

(***************************************************************************)
(* C28 (as stated) - _classify_distribution returns "distribuicao mista"   *)
(* exactly when |skewness| <= 0.5 and |kurtosis| <= 0.5 and at least one   *)
(* of the two absolute values equals 0.5; for every other input one of     *)
(* the five other labels is returned.                                      *)
(***************************************************************************)
C28_MixedOnlyOnBoundary ==
    Classified =>
        /\ last.ret \in Labels
        /\ (last.ret = "distribuicao mista") =
              (/\ InBand(Skewness) /\ InBand(Kurtosis)
               /\ (OnEdge(Skewness) \/ OnEdge(Kurtosis)))

\* C28 (amended) - _classify_distribution returns "distribuicao mista"
\* exactly when each statistic is either not-a-number or of absolute value
\* at most 0.5, and at least one of them is not-a-number or of absolute
\* value exactly 0.5; for every other input one of the five other labels
\* is returned.
C28_MixedOnBoundaryOrNaN ==
    Classified =>
        /\ last.ret \in Labels
        /\ (last.ret = "distribuicao mista") =
              (/\ Skewness.nan \/ InBand(Skewness)
               /\ Kurtosis.nan \/ InBand(Kurtosis)
               /\ \/ Skewness.nan \/ OnEdge(Skewness)
                  \/ Kurtosis.nan \/ OnEdge(Kurtosis))

\* a skewness of exactly 0.5 with a kurtosis that is not a number
C28_Witness ==
    /\ Classified
    /\ Skewness = Float(HALF)
    /\ Kurtosis = NaN
    /\ last.ret = "distribuicao mista"


(***************************************************************************)
(* BaseAgent (src/backend/agents/base_agent.py).  The abstract coroutines  *)
(* initialize and cleanup return or raise; a call of start or stop that    *)
(* awaits one of them is in flight, and other calls run meanwhile.         *)
(***************************************************************************)
MaxTasks == 3

MaxInFlight == 1

TaskIds == { "a", "b" }

TaskStatuses == { "queued", "done" }

\* BaseAgent.__init__
NewAgent(agent_name) ==
    [ agent_name |-> agent_name, is_active |-> FALSE, status |-> "initialized",
      tasks |-> << >> ]

\* the assignments of start, before initialize is awaited
start(self) == [self EXCEPT !.is_active = TRUE, !.status = "active"]

stop_StatusKept(self) == [self EXCEPT !.is_active = FALSE]

\* the assignments of stop, before cleanup is awaited
stop(self) == [self EXCEPT !.is_active = FALSE, !.status = "stopped"]

\* BaseAgent.get_status
get_status(self) ==
    [ name |-> self.agent_name, status |-> self.status,
      is_active |-> self.is_active, tasks_count |-> Len(self.tasks) ]

\* BaseAgent.health_check
health_check(self) == self.is_active /\ self.status = "active"

\* BaseAgent.add_task
add_task(self, task_id, task_data) ==
    [self EXCEPT !.tasks =
        Append(@, [id |-> task_id, data |-> task_data, status |-> "queued"])]

\* the positions of the tasks of an id, and the first of them
PositionsOf(tasks, task_id) == { k \in DOMAIN tasks : tasks[k].id = task_id }

FirstOf(tasks, task_id) == MinOf(PositionsOf(tasks, task_id))

\* BaseAgent.get_task_status
get_task_status(self, task_id) ==
    IF PositionsOf(self.tasks, task_id) = {} THEN None
    ELSE self.tasks[FirstOf(self.tasks, task_id)].status

update_task_status_All(self, task_id, status) ==
    [self EXCEPT !.tasks =
        [k \in DOMAIN self.tasks |->
            IF self.tasks[k].id = task_id
            THEN [self.tasks[k] EXCEPT !.status = status]
            ELSE self.tasks[k]]]

\* BaseAgent.update_task_status: the loop ends at the first task of the id
update_task_status(self, task_id, status) ==
    IF PositionsOf(self.tasks, task_id) = {} THEN self
    ELSE [self EXCEPT !.tasks[FirstOf(self.tasks, task_id)].status = status]

AgentInit ==
    /\ store = [k \in SessionIds |-> Absent]
    /\ mgr = [r \in Runs |-> NoManager]
    /\ now = 1
    /\ faults = 0
    /\ hist = [k \in SessionIds |-> HistOf(store[k])]
    /\ upload = NoUpload
    /\ analyzer = NoAnalyzer
    /\ agent = [ made |-> TRUE, self |-> NewAgent("agent"),
                 initialize |-> 0, cleanup |-> 0 ]
    /\ last = NoOp

\* a call on the agent ended (or reached its await) in the state a
Called(op, arg, ret, raised, a) ==
    /\ agent' = a
    /\ last' = [NoOp EXCEPT !.op = op, !.arg = arg, !.ret = ret, !.raised = raised]
    /\ UNCHANGED << upload, analyzer, memoryVars >>

\* await agent.start() up to the await of initialize
Start ==
    /\ agent.initialize < MaxInFlight
    /\ Called("start", None, "awaiting", FALSE,
              [agent EXCEPT !.self = start(@), !.initialize = @ + 1])

\* initialize returns or raises, and with it the call of start
Initialized(outcome) ==
    /\ agent.initialize > 0
    /\ Called("start", None, outcome, outcome = "raise",
              [agent EXCEPT !.initialize = @ - 1])

\* await agent.stop() up to the await of cleanup
Stop ==
    /\ agent.cleanup < MaxInFlight
    /\ Called("stop", None, "awaiting", FALSE,
              [agent EXCEPT !.self = stop(@), !.cleanup = @ + 1])

\* cleanup returns or raises, and with it the call of stop
CleanedUp(outcome) ==
    /\ agent.cleanup > 0
    /\ Called("stop", None, outcome, outcome = "raise",
              [agent EXCEPT !.cleanup = @ - 1])

GetStatus == Called("get_status", None, get_status(agent.self), FALSE, agent)

HealthCheck == Called("health_check", None, health_check(agent.self), FALSE, agent)

AddTask(task_id) ==
    /\ Len(agent.self.tasks) < MaxTasks
    /\ Called("add_task", << task_id >>, None, FALSE,
              [agent EXCEPT !.self = add_task(@, task_id, "data")])

GetTaskStatus(task_id) ==
    Called("get_task_status", << task_id >>,
           get_task_status(agent.self, task_id), FALSE, agent)

UpdateTaskStatus(task_id, status) ==
    Called("update_task_status", << task_id, status >>, None, FALSE,
           [agent EXCEPT !.self = update_task_status(@, task_id, status)])

AgentNext ==
    \/ Start
    \/ \E outcome \in { "return", "raise" } : Initialized(outcome)
    \/ Stop
    \/ \E outcome \in { "return", "raise" } : CleanedUp(outcome)
    \/ GetStatus
    \/ HealthCheck
    \/ \E task_id \in TaskIds : AddTask(task_id)
    \/ \E task_id \in TaskIds : GetTaskStatus(task_id)
    \/ \E task_id \in TaskIds, status \in TaskStatuses :
          UpdateTaskStatus(task_id, status)

\* the calls on one agent, interleaved at the awaits
SpecAgent == AgentInit /\ [][AgentNext]_vars

\* C29 - in every state between the calls on a BaseAgent, after any
\* sequence of start and stop, is_active is true exactly when status is
\* "active", and health_check returns true exactly then; a start whose
\* initialize raised leaves the agent marked active and a stop whose cleanup
\* raised leaves it marked stopped.
C29_ActiveIffStatus ==
    /\ [](/\ agent.self.is_active = (agent.self.status = "active")
          /\ last.op = "health_check" =>
                last.ret = (agent.self.status = "active")
          /\ last.op = "get_status" =>
                last.ret.is_active = (last.ret.status = "active"))
    /\ [][ /\ (last'.op = "start" /\ last'.ret = "awaiting") =>
                 (agent'.self.is_active /\ agent'.self.status = "active")
           /\ (last'.op = "stop" /\ last'.ret = "awaiting") =>
                 (~agent'.self.is_active /\ agent'.self.status = "stopped")
           /\ (last'.op \in { "start", "stop" } /\ last'.ret # "awaiting") =>
                 agent'.self = agent.self ]_vars

\* initialize raised and the agent is active and healthy
C29_Witness ==
    /\ last.op = "start"
    /\ last.raised
    /\ agent.self.is_active
    /\ agent.self.status = "active"
    /\ agent.cleanup = 0
    /\ health_check(agent.self)


\* the tasks of the agent
Tasks == agent.self.tasks

\* C30 - tasks are only ever added and add_task does not reject a duplicate
\* id; update_task_status changes only the first task of the id in
\* insertion order and get_task_status reports only that task, so a task
\* added later with the same id keeps the status "queued" after any
\* sequence of updates; updating or querying an unknown id changes nothing
\* and get_task_status returns None.
C30_FirstTaskOfAnId ==
    /\ [](/\ \A j \in DOMAIN Tasks :
                (\E i \in 1..(j - 1) : Tasks[i].id = Tasks[j].id) =>
                    Tasks[j].status = "queued"
          /\ last.op = "get_task_status" =>
                last.ret =
                   (IF \A k \in DOMAIN Tasks : Tasks[k].id # last.arg[1]
                    THEN None
                    ELSE Tasks[CHOOSE k \in DOMAIN Tasks :
                                  /\ Tasks[k].id = last.arg[1]
                                  /\ \A i \in 1..(k - 1) : Tasks[i].id # last.arg[1]].status))
    /\ [][ /\ Len(Tasks') >= Len(Tasks)
           /\ \A k \in DOMAIN Tasks :
                 /\ Tasks'[k].id = Tasks[k].id
                 /\ Tasks'[k].data = Tasks[k].data
           /\ last'.op = "add_task" =>
                 /\ Len(Tasks') = Len(Tasks) + 1
                 /\ Tasks'[Len(Tasks')].id = last'.arg[1]
                 /\ Tasks'[Len(Tasks')].status = "queued"
                 /\ \A k \in DOMAIN Tasks : Tasks'[k] = Tasks[k]
           /\ last'.op = "update_task_status" =>
                 /\ Len(Tasks') = Len(Tasks)
                 /\ \A k \in DOMAIN Tasks :
                       IF /\ Tasks[k].id = last'.arg[1]
                          /\ \A i \in 1..(k - 1) : Tasks[i].id # last'.arg[1]
                       THEN Tasks'[k].status = last'.arg[2]
                       ELSE Tasks'[k] = Tasks[k]
           /\ last'.op \notin { "add_task", "update_task_status" } =>
                 Tasks' = Tasks ]_vars

\* two tasks of the id "a": the first was updated to "done", the second is
\* still "queued", and the status of "b", which was never added, was asked
C30_Witness ==
    /\ Len(Tasks) >= 2
    /\ Tasks[1].id = "a" /\ Tasks[1].status = "done"
    /\ Tasks[2].id = "a" /\ Tasks[2].status = "queued"
    /\ \A k \in DOMAIN Tasks : Tasks[k].id = "a"
    /\ last.op = "get_task_status"
    /\ last.arg = << "b" >>
    /\ last.ret = None

====
